---- MODULE Spec2Model ----
(***************************************************************************)
(* Model of runner-tailscale-sync: the handoff pipeline of                 *)
(* core/sync-orchestrator.js, the predecessor detection of                 *)
(* core/runner-detector.js and the data pull of core/data-sync.js.         *)
(*                                                                         *)
(* Strings the code inspects are modelled by their structure: a tag is a   *)
(* record (prefixed, name) so that startsWith("tag:") and                  *)
(* replace(/^tag:/, "") are computed; an address is a record (net, host)   *)
(* so that startsWith("100.") is computed.                                 *)
(***************************************************************************)
EXTENDS Integers, Sequences, FiniteSets, TLC

\* ------------------------------------------------------------------ bounds
\* Largest number of peers in one `tailscale status --json` snapshot.
MaxPeers == 2
\* Number of distinct file names that can exist in a .runner-data directory.
MaxFiles == 2
\* Number of pullData calls in the standalone pull specification.
MaxPulls == 2
\* Largest number of names in the services-to-stop list.
MaxServices == 2
\* Number of remote operations issued one after another.
MaxOps == 2

\* ------------------------------------------------------------- tag strings
Tag(p, n) == [prefixed |-> p, name |-> n]

\* `tag.startsWith("tag:") ? tag : `tag:${tag}``
tagWithPrefix(tag) == IF tag.prefixed THEN tag ELSE Tag(TRUE, tag.name)

\* `tag.replace(/^tag:/, "")`
tagWithoutPrefix(tag) == Tag(FALSE, tag.name)

\* An item of the comma-separated TAILSCALE_TAGS that is empty after trim().
BlankItem == Tag(FALSE, "")

\* config.tailscaleTags, already cut at the commas: the items of the string.
TagConfigs ==
  { <<Tag(TRUE, "ci")>>, <<Tag(FALSE, "ci")>>, <<BlankItem>> }

\* String(config.tailscaleTags || "").split(",").map(trim).filter(Boolean)
parseTags(items) == SelectSeq(items, LAMBDA t : t # BlankItem)

\* --------------------------------------------------------------- addresses
Addr(net, host) == [net |-> net, host |-> host]

\* status.Self.TailscaleIPs of the local node: one IPv4 and one IPv6 address.
SelfIPs == << Addr("100.", 0), Addr("fd7a:", 0) >>

\* ------------------------------------------------------------- timestamps
\* Created / LastSeen are RFC 3339 strings; "" stands for a missing field.
\* Date.parse maps them to milliseconds; the model keeps their order.
DateParse(s) ==
  CASE s = "2026-01-01T00:00:00Z" -> 1
    [] s = "2026-01-02T00:00:00Z" -> 2
    [] s = "2026-01-03T00:00:00Z" -> 3
    [] OTHER -> 0

\* ------------------------------------------------- peer directory snapshot
\* The kinds of peer a snapshot can hold.  "shared" is another node (its key
\* differs from the local node's) that lists one of the local addresses in
\* second position; "noip" has no address; "nocreated" has no Created field.
PeerProfiles ==
  { "shared", "mismatch", "offline", "noip", "nocreated", "older", "newer" }

ProfileIPs(profile, i) ==
  CASE profile = "shared" -> << Addr("100.", i), Addr("fd7a:", 0) >>
    [] profile = "noip"   -> << >>
    [] OTHER              -> << Addr("100.", i) >>

ProfileTags(profile) ==
  IF profile = "mismatch" THEN { Tag(TRUE, "other") } ELSE { Tag(TRUE, "ci") }

ProfileCreated(profile) ==
  CASE profile = "nocreated" -> ""
    [] profile = "older"     -> "2026-01-01T00:00:00Z"
    [] profile = "mismatch"  -> "2026-01-01T00:00:00Z"
    [] profile = "newer"     -> "2026-01-02T00:00:00Z"
    [] OTHER                 -> "2026-01-03T00:00:00Z"

\* The node registered first was seen last: the two rankings disagree.
ProfileLastSeen(profile) ==
  CASE profile = "older" -> "2026-01-03T00:00:00Z"
    [] profile = "newer" -> "2026-01-02T00:00:00Z"
    [] OTHER             -> "2026-01-01T00:00:00Z"

\* The entry of status.Peer at position i (its key is i).
PeerOf(profile, i) ==
  [ ID           |-> i,
    TailscaleIPs |-> ProfileIPs(profile, i),
    Tags         |-> ProfileTags(profile),
    Online       |-> profile # "offline",
    Created      |-> ProfileCreated(profile),
    LastSeen     |-> ProfileLastSeen(profile) ]

SeqsUpTo(S, n) == UNION { [1..k -> S] : k \in 0..n }

\* The ways `tailscale status --json` yields no status: runCapture returns
\* null because the command failed, it returns the empty string, or
\* JSON.parse throws on what it returned.
FailedOutputs == { "command failed", "no output", "unparsable" }

\* What getStatus can return: null for each of FailedOutputs, a status
\* without Peer, or a status whose Peer map lists up to MaxPeers entries in
\* the order Object.entries iterates them.
Statuses ==
  { [available |-> FALSE, hasPeer |-> FALSE, Self |-> SelfIPs, Peer |-> << >>,
     output |-> o] : o \in FailedOutputs }
  \cup
  { [available |-> TRUE, hasPeer |-> FALSE, Self |-> SelfIPs, Peer |-> << >>,
     output |-> "json"] }
  \cup
  { [available |-> TRUE, hasPeer |-> TRUE, Self |-> SelfIPs,
     Peer |-> [i \in DOMAIN ps |-> PeerOf(ps[i], i)], output |-> "json"] :
       ps \in SeqsUpTo(PeerProfiles, MaxPeers) }

\* `status` before getStatus has been called.
NoStatus == [available |-> FALSE, hasPeer |-> FALSE, Self |-> SelfIPs, Peer |-> << >>,
             output |-> "not run"]

\* ------------------------------------------------ remote command replies
\* What ssh.executeCommandCapture returns for `echo OK`: runCapture's trimmed
\* stdout, or null ("null") when the command fails.
Replies == { "OK", "null", "Permission denied" }

\* A probe that takes any output for an answer.
checkConnection_anyOutput(reply) == reply # "null"

\* ssh.checkConnection: `result === "OK"`.
checkConnection(reply) == reply = "OK"

\* Texts a remote `cat metadata.json` can give: null, an empty output, text
\* that is not JSON, a document naming runner.runnerDataDir, and one without.
MetaTexts == { "null", "", "not json", "{runnerDataDir}", "{}" }

NoMetadata == [present |-> FALSE, runnerDataDir |-> "", user |-> ""]

\* JSON.parse of the text; a SyntaxError is caught by the caller as null.
JSONparse(text) ==
  CASE text = "{runnerDataDir}" ->
         [present |-> TRUE, runnerDataDir |-> "/srv/.runner-data", user |-> "runner"]
    [] text = "{}" ->
         [present |-> TRUE, runnerDataDir |-> "", user |-> "runner"]
    [] OTHER -> NoMetadata

\* `!result || !result.trim()`
Blank(text) == text \in { "null", "" }

\* The conventional work directories, in the order they are probed.
possiblePaths ==
  << "/home/runner/work", "/home/runner/_work", "/home/vsts/work", "/home/vsts/work/1" >>

\* The state of one remote host as the data check sees it.
RemoteEnvs ==
  [ metaRunner   : MetaTexts,
    metaRoot     : MetaTexts,
    testDir      : { "yes", "null" },
    existingDirs : { {}, { "/home/runner/_work" },
                     { "/home/vsts/work", "/home/vsts/work/1" } },
    findReply    : { "yes", "null" } ]

\* The texts JSON.parse accepts; on any other it throws a SyntaxError.
ValidJSON == { "{runnerDataDir}", "{}" }

\* A getRemoteMetadata without its catch block: the SyntaxError of
\* JSON.parse leaves the function.
metadataOutcome_noCatch(env) ==
  LET first  == env.metaRunner
      result == IF Blank(first) THEN env.metaRoot ELSE first
  IN  IF Blank(result) THEN [raised |-> FALSE, metadata |-> NoMetadata]
      ELSE IF result \notin ValidJSON
        THEN [raised |-> TRUE, metadata |-> NoMetadata]
        ELSE [raised |-> FALSE, metadata |-> JSONparse(result)]

\* The body of getRemoteMetadata: runner@host first, root@host when that
\* gave nothing; null when there is no text; JSON.parse inside try, whose
\* catch block returns null.
metadataOutcome(env) ==
  LET first  == env.metaRunner
      result == IF Blank(first) THEN env.metaRoot ELSE first
  IN  IF Blank(result) THEN [raised |-> FALSE, metadata |-> NoMetadata]
      ELSE IF result \notin ValidJSON
        THEN [raised |-> FALSE, metadata |-> NoMetadata]
        ELSE [raised |-> FALSE, metadata |-> JSONparse(result)]

\* getRemoteMetadata: what the call returns.
getRemoteMetadata(env) == metadataOutcome(env).metadata

\* getRunnerWorkDir: the first conventional path that exists, or "" (null).
getRunnerWorkDir(env) ==
  LET hits == { k \in DOMAIN possiblePaths : possiblePaths[k] \in env.existingDirs }
  IN  IF hits = {} THEN ""
      ELSE possiblePaths[CHOOSE k \in hits : \A j \in hits : k <= j]

\* A data check that also accepts what the work-directory probing finds
\* when the metadata path does not exist.
checkRunnerData_probingToo(env) ==
  LET metadata == getRemoteMetadata(env)
      probed   == getRunnerWorkDir(env) # "" /\ env.findReply = "yes"
  IN  IF metadata.present /\ metadata.runnerDataDir # ""
        THEN env.testDir = "yes" \/ probed
        ELSE probed

\* checkRunnerData: the metadata path when there is one, else the probing.
checkRunnerData(env) ==
  LET metadata == getRemoteMetadata(env)
  IN  IF metadata.present /\ metadata.runnerDataDir # ""
        THEN env.testDir = "yes"
        ELSE IF getRunnerWorkDir(env) = "" THEN FALSE
             ELSE env.findReply = "yes"

\* What the data loop learns about one host: `peer.hasData`, and
\* `peer.metadata` which is fetched only for a peer that has data.
DataChecks ==
  { [ hasData  |-> checkRunnerData(env),
      metadata |-> IF checkRunnerData(env) THEN getRemoteMetadata(env)
                                           ELSE NoMetadata ] : env \in RemoteEnvs }

\* --------------------------------------------------- predecessor selection
includes(seq, x) == \E k \in DOMAIN seq : seq[k] = x

\* A self test that compares the first address of either side only.
isSelf_firstAddress(selfIPs, peer) ==
  /\ selfIPs # << >>
  /\ peer.TailscaleIPs # << >>
  /\ peer.TailscaleIPs[1] = selfIPs[1]

\* `selfIPs.some((ip) => peer.TailscaleIPs?.includes(ip))`
isSelf(selfIPs, peer) ==
  \E k \in DOMAIN selfIPs : includes(peer.TailscaleIPs, selfIPs[k])

\* `tagList.some((tag) => peerInfo.Tags?.includes(tag))`: the configured
\* spelling only.
hasSameTag_exact(tags, peer) == \E k \in DOMAIN tags : tags[k] \in peer.Tags

\* The tag test of the filter loop: either spelling of a configured tag.
hasSameTag(tags, peer) ==
  \E k \in DOMAIN tags :
    \/ tagWithPrefix(tags[k]) \in peer.Tags
    \/ tagWithoutPrefix(tags[k]) \in peer.Tags

\* The record pushed onto matchingPeers.  accessible and hasData are not set
\* yet (undefined, which every later test reads as false).
MatchedPeer(peer) ==
  [ id         |-> peer.ID,
    ips        |-> peer.TailscaleIPs,
    tags       |-> peer.Tags,
    online     |-> peer.Online,
    created    |-> peer.Created,
    lastSeen   |-> peer.LastSeen,
    accessible |-> FALSE,
    hasData    |-> FALSE,
    metadata   |-> NoMetadata ]

\* A filter loop without the Online test.
RECURSIVE FilterPeers_keepOffline(_, _, _)
FilterPeers_keepOffline(selfIPs, tags, peers) ==
  IF peers = << >> THEN << >>
  ELSE LET peer == Head(peers)
           rest == FilterPeers_keepOffline(selfIPs, tags, Tail(peers))
       IN  IF isSelf(selfIPs, peer) THEN rest
           ELSE IF ~hasSameTag(tags, peer) THEN rest
           ELSE << MatchedPeer(peer) >> \o rest

RECURSIVE FilterPeers(_, _, _)
FilterPeers(selfIPs, tags, peers) ==
  IF peers = << >> THEN << >>
  ELSE LET peer == Head(peers)
           rest == FilterPeers(selfIPs, tags, Tail(peers))
       IN  IF isSelf(selfIPs, peer) THEN rest
           ELSE IF ~hasSameTag(tags, peer) THEN rest
           ELSE IF ~peer.Online THEN rest
           ELSE << MatchedPeer(peer) >> \o rest

\* The filter loop over Object.entries(status.Peer).
matchingPeersOf(status, tags) == FilterPeers(status.Self, tags, status.Peer)

\* `a.created ? Date.parse(a.created) : 0`
createdTime(peer) == IF peer.created = "" THEN 0 ELSE DateParse(peer.created)

\* The ranking of the earlier revision: `a.lastSeen ? Date.parse(a.lastSeen) : 0`.
lastSeenTime(peer) == IF peer.lastSeen = "" THEN 0 ELSE DateParse(peer.lastSeen)

\* Ranking by last-seen time instead of registration time.
sortKey_lastSeen(peer) == lastSeenTime(peer)

\* The key the comparator `(a, b) => tb - ta` ranks by.
sortKey(peer) == createdTime(peer)

\* Array.prototype.sort is stable: x goes behind every element that does not
\* rank below it.
InsertSorted(sorted, x) ==
  LET n == Cardinality({ j \in DOMAIN sorted : sortKey(sorted[j]) >= sortKey(x) })
  IN  SubSeq(sorted, 1, n) \o << x >> \o SubSeq(sorted, n + 1, Len(sorted))

RECURSIVE SortNewestFirst(_)
SortNewestFirst(peers) ==
  IF peers = << >> THEN << >>
  ELSE InsertSorted(SortNewestFirst(SubSeq(peers, 1, Len(peers) - 1)),
                    peers[Len(peers)])

\* accessiblePeers.filter((item) => item.hasData).slice().sort(...)
\* A ranking that only admits peers whose metadata file was read.
peersWithDataOf_needsMetadata(accessible) ==
  SortNewestFirst(SelectSeq(accessible, LAMBDA p : p.hasData /\ p.metadata.present))

peersWithDataOf(accessible) ==
  SortNewestFirst(SelectSeq(accessible, LAMBDA p : p.hasData))

\* accessiblePeersOf without the filter on `accessible`.
accessiblePeersOf_unfiltered(matching) == matching

\* matchingPeers.filter((peer) => peer.accessible)
accessiblePeersOf(matching) == SelectSeq(matching, LAMBDA p : p.accessible)

\* A probe whose completion takes the peer out of the list and pushes it
\* back at the end: the list ends up in completion order.
markAccessible_requeue(list, id, value) ==
  SelectSeq(list, LAMBDA p : p.id # id)
  \o [k \in DOMAIN SelectSeq(list, LAMBDA p : p.id = id) |->
        [SelectSeq(list, LAMBDA p : p.id = id)[k] EXCEPT !.accessible = value]]

\* `peer.accessible = ...`: the flag is set on the peer object, which stays
\* where it is in matchingPeers.
markAccessible(list, id, value) ==
  [k \in DOMAIN list |->
     IF list[k].id = id THEN [list[k] EXCEPT !.accessible = value] ELSE list[k]]

\* `peer.hasData = ...; if (peer.hasData) peer.metadata = ...`, likewise.
markData(list, id, check) ==
  [k \in DOMAIN list |->
     IF list[k].id = id
       THEN [list[k] EXCEPT !.hasData = check.hasData, !.metadata = check.metadata]
       ELSE list[k]]

\* `peer: null`: a record no entry of a snapshot equals (keys start at 1).
NullPeer == MatchedPeer(PeerOf("noip", 0))

NotFound == [found |-> FALSE, peer |-> NullPeer]
Found(peer) == [found |-> TRUE, peer |-> peer]

\* The end of execute: the first of the ranked peers, or nothing.
selectPeer(accessible) ==
  LET ranked == peersWithDataOf(accessible)
  IN  IF ranked = << >> THEN NotFound ELSE Found(ranked[1])

\* ------------------------------------------------------------ configuration
\* The Config object: the fields the pipeline reads.
Configs ==
  [ tailscaleEnable       : BOOLEAN,
    gitEnabled            : BOOLEAN,
    tailscaleClientId     : { "", "client-id" },
    tailscaleClientSecret : { "", "client-secret" },
    tailscaleTags         : TagConfigs ]

ConfigValidate_idOnly(cfg) ==
  IF cfg.tailscaleEnable /\ cfg.tailscaleClientId = ""
    THEN << "TAILSCALE_CLIENT_ID is required when TAILSCALE_ENABLE=1" >>
    ELSE << >>

\* Config.validate(): the list of error texts.
ConfigValidate(cfg) ==
  IF cfg.tailscaleEnable
    THEN (IF cfg.tailscaleClientId = ""
            THEN << "TAILSCALE_CLIENT_ID is required when TAILSCALE_ENABLE=1" >>
            ELSE << >>)
         \o
         (IF cfg.tailscaleClientSecret = ""
            THEN << "TAILSCALE_CLIENT_SECRET is required when TAILSCALE_ENABLE=1" >>
            ELSE << >>)
    ELSE << >>

Step(name, enabled) == [name |-> name, enabled |-> enabled]

\* A plan that lists stop_remote_services before pull_data.
plan_stopBeforePull(cfg) ==
  << Step("setup_directories", TRUE),
     Step("connect_tailscale", cfg.tailscaleEnable),
     Step("detect_previous_runner", cfg.tailscaleEnable),
     Step("stop_remote_services", cfg.tailscaleEnable),
     Step("pull_data", cfg.tailscaleEnable),
     Step("push_to_git", cfg.gitEnabled) >>

\* A plan that lists pull_data before detect_previous_runner.
plan_pullBeforeDetect(cfg) ==
  << Step("setup_directories", TRUE),
     Step("connect_tailscale", cfg.tailscaleEnable),
     Step("pull_data", cfg.tailscaleEnable),
     Step("detect_previous_runner", cfg.tailscaleEnable),
     Step("stop_remote_services", cfg.tailscaleEnable),
     Step("push_to_git", cfg.gitEnabled) >>

\* A plan that enables push_to_git whatever gitEnabled says.
plan_publishAlways(cfg) ==
  << Step("setup_directories", TRUE),
     Step("connect_tailscale", cfg.tailscaleEnable),
     Step("detect_previous_runner", cfg.tailscaleEnable),
     Step("pull_data", cfg.tailscaleEnable),
     Step("stop_remote_services", cfg.tailscaleEnable),
     Step("push_to_git", TRUE) >>

\* sync-orchestrator plan(): the six steps and their enabled flags.
plan(cfg) ==
  << Step("setup_directories", TRUE),
     Step("connect_tailscale", cfg.tailscaleEnable),
     Step("detect_previous_runner", cfg.tailscaleEnable),
     Step("pull_data", cfg.tailscaleEnable),
     Step("stop_remote_services", cfg.tailscaleEnable),
     Step("push_to_git", cfg.gitEnabled) >>

\* A key of the results map that no stage has written yet.
Unset == [set |-> FALSE]

NoResults ==
  [ setupDirs |-> Unset, tailscale |-> Unset, detection |-> Unset,
    pullData |-> Unset, stopServices |-> Unset, pushGit |-> Unset ]

\* `{ success: true, skipped: true }`
Skipped == [set |-> TRUE, success |-> TRUE, skipped |-> TRUE]

DetectionReport_failWhenNone(res) ==
  [ set |-> TRUE, success |-> res.found,
    previousRunner |-> IF res.found THEN res.peer ELSE NullPeer ]

\* runner-detector report(): previousRunner is the peer or null.
DetectionReport(res) ==
  [ set |-> TRUE, success |-> TRUE,
    previousRunner |-> IF res.found THEN res.peer ELSE NullPeer ]

\* A test that takes a missing detection result for a predecessor.
noPreviousRunner_storedNullOnly(res) ==
  IF res.detection.set THEN res.detection.previousRunner = NullPeer ELSE FALSE

\* A test that only asks whether the detection stage wrote its result.
noPreviousRunner_unsetOnly(res) == ~res.detection.set

\* `!results.detection?.previousRunner`
noPreviousRunner(res) ==
  IF res.detection.set THEN res.detection.previousRunner = NullPeer ELSE TRUE

\* ------------------------------------------------------------------- files
Files == 1..MaxFiles

\* The size in bytes of the file named f.
FileSize(f) == f

RECURSIVE SumSizes(_)
SumSizes(S) ==
  IF S = {} THEN 0
  ELSE LET f == CHOOSE x \in S : TRUE IN FileSize(f) + SumSizes(S \ {f})

\* fs_adapter.getDirSize(dir): the bytes of the files under dir.
getDirSize(files) == SumSizes(files)

\* The predecessor's working-data directory: missing, or a set of files
\* (empty when the directory exists and holds nothing).
RemoteDirs ==
  { [exists |-> FALSE, files |-> {}] }
  \cup { [exists |-> TRUE, files |-> S] : S \in SUBSET Files }

\* The texts runWithTimeout rejects with: a non-zero exit, the timeout, a
\* spawn error, and a command line that itself holds the words the catch
\* block of data-sync looks for.
ErrMessages ==
  { "Command failed with code 23: rsync",
    "Command timeout after 300000ms: rsync",
    "spawn rsync ENOENT",
    "Command failed with code 23: rsync /No such file/" }

\* `err.message.includes("No such file") || err.message.includes("does not exist")`
includesNoSuchFile(msg) == msg = "Command failed with code 23: rsync /No such file/"

\* What the scp fallback rejects with.
ScpErrMessages ==
  { "Command failed with code 1: scp",
    "Command timeout after 300000ms: scp",
    "spawn scp ENOENT" }

\* rsync without --delete: files the source lacks stay in the destination.
RsyncOutcomes_noDelete(rem, local) ==
  { [ ok    |-> TRUE, msg |-> "",
      local |-> local \cup rem.files,
      moved |-> getDirSize(rem.files \ local) ] }
  \cup
  { [ ok |-> FALSE, msg |-> m, local |-> local \cup S,
      moved |-> getDirSize(S \ local) ] :
        m \in ErrMessages, S \in SUBSET rem.files }

\* A transfer that sends every file of the source again.
RsyncOutcomes_noDelta(rem, local) ==
  { [ ok    |-> TRUE, msg |-> "",
      local |-> IF rem.exists THEN rem.files ELSE local,
      moved |-> getDirSize(rem.files) ] }

\* rsync -av --delete --partial --ignore-missing-args source/ destination:
\* on exit 0 the destination mirrors an existing source and is left alone
\* when the source is missing; on failure the files already received stay.
\* moved is the number of bytes the run carried.
RsyncOutcomes(rem, local) ==
  { [ ok    |-> TRUE, msg |-> "",
      local |-> IF rem.exists THEN rem.files ELSE local,
      moved |-> IF rem.exists THEN getDirSize(rem.files \ local) ELSE 0 ] }
  \cup
  { [ ok |-> FALSE, msg |-> m, local |-> local \cup S,
      moved |-> getDirSize(S \ local) ] :
        m \in ErrMessages, S \in SUBSET rem.files }

\* scp -r host:dir/* destination: succeeds only when the glob matches, copies
\* every file it names and deletes nothing.
ScpOutcomes(rem, local) ==
  ( IF rem.exists /\ rem.files # {}
      THEN { [ ok |-> TRUE, msg |-> "", local |-> local \cup rem.files,
               moved |-> getDirSize(rem.files) ] }
      ELSE {} )
  \cup
  { [ ok |-> FALSE, msg |-> m, local |-> local \cup S,
      moved |-> getDirSize(S) ] :
        m \in ScpErrMessages, S \in SUBSET rem.files }

NoError == [class |-> "none", message |-> ""]
Err(class, message) == [class |-> class, message |-> message]

\* data-sync parseInput + plan: where to pull from.
pullPlanOf(previousRunner) ==
  LET meta == previousRunner.metadata
      user == IF meta.present /\ meta.user \notin { "", "unknown" }
                THEN meta.user ELSE "root"
  IN  [ hasHost    |-> previousRunner.ips # << >>,
        remoteUser |-> user,
        useMetaDir |-> meta.present /\ meta.runnerDataDir # "",
        \* `remoteHostRaw?.startsWith("100.")`: -av, else -avz
        compress   |-> IF previousRunner.ips = << >> THEN TRUE
                       ELSE previousRunner.ips[1].net # "100." ]

NoPlan == [hasHost |-> FALSE, remoteUser |-> "", useMetaDir |-> FALSE, compress |-> FALSE]

\* data-sync execute's return value, and what report makes of it.
ExecResult(size, skipped) == [success |-> TRUE, size |-> size, skipped |-> skipped]
NoExecResult == [success |-> FALSE, size |-> 0, skipped |-> FALSE]
\* A report that leaves the size out.
pullReport_noSize(res) == [set |-> TRUE, success |-> TRUE, syncedSize |-> 0]

\* data-sync report(): `syncedSize: result.size`.
pullReport(res) == [set |-> TRUE, success |-> TRUE, syncedSize |-> res.size]

\* ------------------------------------------------------------------- state
VARIABLES
  config,          \* the Config object
  planSteps,       \* planResult.steps
  opc,             \* where orchestrate is: validate, execute, reported, failed
  stepIdx,         \* the position of execute's loop in planSteps
  inProgress,      \* the stages that have started and not yet ended
  started,         \* the stages in the order they started
  results,         \* execute's results map
  thrown,          \* the error a stage raised, inside execute's try
  error,           \* the error orchestrate rejected with
  report,          \* what orchestrate returned
  errorLog,        \* the lines written with logger.error, in order
  dirsCreated,     \* ensureDirs ran
  metadataWritten, \* the metadata file was written
  joined,          \* the node joined the overlay network
  stopTargets,     \* the peers stopRemoteServices was called for, in order
  gitCalls,        \* the number of git.commitAndPush calls
  pushRun,         \* git.push as commitAndPush called it: attempts and sleeps
  dpc,             \* where detectPreviousRunner is
  status,          \* execute's status, the snapshot getStatus returned
  matchingPeers,   \* execute's matchingPeers
  accessiblePeers, \* execute's accessiblePeers
  idx,             \* the loop position in the list being walked
  probeLog,        \* the probes of the detection in progress: <<peer, reply>>
  detResult,       \* execute's return value
  ppc,             \* where pullData is
  pullPeer,        \* pullData's previousRunner argument
  pullPlan,        \* pullData's planResult
  localFiles,      \* the files of the local .runner-data directory
  remote,          \* the predecessor's .runner-data directory
  pullRet,         \* data-sync execute's return value
  pullErr,         \* the error pullData raised
  pullLog,         \* one entry per finished pullData call
  spc,             \* where stopServices is
  services,        \* stopServices' services argument
  sshCommands,     \* the commands stopServices passed to executeCommand
  dispatch,        \* how that executeCommand call ended
  stopLog,         \* stopServices' logger calls, in order
  remoteJobs,      \* the background jobs of the command on the predecessor
  stopRet,         \* what the stop call handed back to its caller
  checkEnv,        \* the remote host a standalone checkRunnerData call meets
  checkRun,        \* that call: the commands it issued and what it returned
  op,              \* the remote operation in progress
  opLog,           \* the remote operations that have ended, in order
  cliExit,         \* the process.exit of bin/runner-sync.js
  connEnv,         \* what a standalone `ssh host "echo OK"` meets
  connRun,         \* that call: the function called and what it returned
  sudoEnv,         \* a standalone executeCommandWithSudoFallback call: its input
  sudoRun          \* that call: the commands it ran and how it settled

orchVars == << config, planSteps, opc, stepIdx, inProgress, started, results,
               thrown, error, report, errorLog >>
effectVars == << dirsCreated, metadataWritten, joined, stopTargets, gitCalls,
                 pushRun >>
detVars == << dpc, status, matchingPeers, accessiblePeers, idx, probeLog, detResult >>
pullVars == << ppc, pullPeer, pullPlan, localFiles, remote, pullRet, pullErr, pullLog >>
stopVars == << spc, services, sshCommands, dispatch, stopLog, remoteJobs, stopRet >>
checkVars == << checkEnv, checkRun >>
opVars == << op, opLog >>
cliVars == << cliExit >>
connVars == << connEnv, connRun >>
sudoVars == << sudoEnv, sudoRun >>
unitVars == << checkVars, opVars, cliVars, connVars, sudoVars >>
vars == << orchVars, effectVars, detVars, pullVars, stopVars, unitVars >>

UnknownRemote == [exists |-> FALSE, files |-> {}]

InitDetect ==
  /\ dpc = "idle"
  /\ status = NoStatus
  /\ matchingPeers = << >>
  /\ accessiblePeers = << >>
  /\ idx = 0
  /\ probeLog = {}
  /\ detResult = NotFound

InitPull ==
  /\ ppc = "idle"
  /\ pullPeer = NullPeer
  /\ pullPlan = NoPlan
  /\ pullRet = NoExecResult
  /\ pullErr = NoError
  /\ pullLog = << >>

\* ------------------------------------------------------------ stopServices
\* The names SERVICES_TO_STOP can hold.
AllServiceNames == << "cloudflared", "pocketbase", "http-server", "nginx" >>
ServiceNames == { AllServiceNames[k] : k \in 1..MaxServices }

\* The services argument: absent, or a list of names (possibly empty).
NoServiceList == [given |-> FALSE, list |-> << >>]
ServiceLists ==
  { NoServiceList } \cup
  { [given |-> TRUE, list |-> l] : l \in SeqsUpTo(ServiceNames, MaxServices) }

\* `!services`: the length is not looked at.
noServices_absentOnly(svc) == ~svc.given

\* `!services || services.length === 0`
noServices(svc) == ~svc.given \/ Len(svc.list) = 0

\* The address stopServices is called with.
StopHost == "100.64.0.2"

RECURSIVE stopCommands(_)
\* `services.map(s => `(sudo systemctl stop ${s} 2>/dev/null || sudo pkill
\* -f ${s} 2>/dev/null) &`).join(" ")`, as the words of the string.
stopCommands(list) ==
  IF list = << >> THEN << >>
  ELSE << "(sudo", "systemctl", "stop", Head(list), "2>/dev/null", "||",
          "sudo", "pkill", "-f", Head(list), "2>/dev/null)", "&" >>
       \o stopCommands(Tail(list))

\* `nohup sh -c 'sleep 1 && ${stopCommands} wait' >/dev/null 2>&1 & disown`
bgCommand(list) ==
  << "nohup", "sh", "-c", "'sleep", "1", "&&" >> \o stopCommands(list)
  \o << "wait'", ">/dev/null", "2>&1", "&", "disown" >>

\* executeCommand's argv, the words runWithTimeout joins into its messages.
sshArgv(host, command) ==
  << "ssh", "-o", "StrictHostKeyChecking=no", "-o", "ConnectTimeout=10", host >>
  \o command

\* How the ssh child process can end.  `delivered` says whether the remote
\* shell received the command before the channel ended: an exit code of 255
\* and a timeout happen both before and after that.
ExecOutcomes ==
  { [kind |-> "close", code |-> "0", delivered |-> TRUE] }
  \cup { [kind |-> "close", code |-> c, delivered |-> d] :
           c \in { "1", "255" }, d \in BOOLEAN }
  \cup { [kind |-> "timeout", code |-> "", delivered |-> d] : d \in BOOLEAN }
  \cup { [kind |-> "error", code |-> "", delivered |-> FALSE] }
NoOutcome == [kind |-> "none", code |-> "", delivered |-> FALSE]

\* The message of the Error runWithTimeout rejects with, as words.
rejectionMessage(out, argv, timeoutMs) ==
  CASE out.kind = "timeout" ->
         << "Command", "timeout", "after", timeoutMs \o "ms:" >> \o argv
    [] out.kind = "close" ->
         << "Command", "failed", "with", "code", out.code \o ":" >> \o argv
    [] out.kind = "error" -> << "spawn", argv[1], "ENOENT" >>

\* String.prototype.includes on a message held as words: the phrase occurs
\* as consecutive words.  No word of a message above has "Connection" or
\* "timed" inside it, so nothing is lost at this granularity.
messageIncludes(msg, phrase) ==
  \E i \in 1..(Len(msg) - Len(phrase) + 1) :
    SubSeq(msg, i, i + Len(phrase) - 1) = phrase

\* stopServices' catch: which failures it logs as a dispatch that went out.
countsAsSent(msg) ==
  messageIncludes(msg, << "Connection" >>) \/ messageIncludes(msg, << "timed", "out" >>)

NoStopRet == [set |-> FALSE]

InitStop ==
  /\ spc = "idle"
  /\ services = NoServiceList
  /\ sshCommands = << >>
  /\ dispatch = NoOutcome
  /\ stopLog = << >>
  /\ remoteJobs = << >>
  /\ stopRet = NoStopRet

\* ----------------------------------------------- functions called alone
NoCheckRun == [ done |-> FALSE, hasData |-> FALSE, commands |-> << >>,
                metadata |-> NoMetadata, raised |-> FALSE ]

\* The remote host of the standalone call before it is chosen.
NoEnv == [ metaRunner |-> "null", metaRoot |-> "null", testDir |-> "null",
           existingDirs |-> {}, findReply |-> "null" ]

\* No remote operation is in progress.
NoOp == [ kind |-> "none", via |-> "none", timer |-> "none", child |-> "none",
          kill |-> "none", settled |-> "none", reason |-> "", history |-> << >> ]

\* ------------------------------------------------------- capture of a command
\* The longest output a captured command prints, in characters.
MaxOutput == 4

\* The characters of such an output, and those String.trim removes.
OutputChars == { "O", "K", " ", "\n" }
Whitespace == { " ", "\n" }

\* What the child process can print.
Outputs == SeqsUpTo(OutputChars, MaxOutput)

\* How execSync ends: the child exits (with 0 it returns stdout, with any
\* other code it throws), or the child cannot be run and it throws.
ExecSyncEnds == { "exit 0", "exit 1", "exit 255", "spawn error" }

\* One run of a command under execSync.
CaptureRuns == [ stdout : Outputs, ends : ExecSyncEnds ]

NoCaptureRun == [ stdout |-> << >>, ends |-> "not run" ]

RECURSIVE trimStart(_)
trimStart(cs) ==
  IF cs # << >> /\ Head(cs) \in Whitespace THEN trimStart(Tail(cs)) ELSE cs

RECURSIVE trimEnd(_)
trimEnd(cs) ==
  IF cs # << >> /\ cs[Len(cs)] \in Whitespace
    THEN trimEnd(SubSeq(cs, 1, Len(cs) - 1))
    ELSE cs

\* String.prototype.trim
trim(cs) == trimEnd(trimStart(cs))

\* The string the characters spell.
RECURSIVE textOf(_)
textOf(cs) == IF cs = << >> THEN "" ELSE Head(cs) \o textOf(Tail(cs))

\* What a call hands back: a value, and whether it raised instead.
Returned(value) == [ raised |-> FALSE, value |-> value ]

\* A capture that returns what was printed however the command ended.
runCapture_ignoreExit(run) == Returned(textOf(trim(run.stdout)))

\* process.runCapture: execSync(...).trim(), and null when execSync throws.
runCapture(run) ==
  IF run.ends = "exit 0" THEN Returned(textOf(trim(run.stdout)))
                         ELSE Returned("null")

\* ssh.executeCommandCapture: runCapture of the ssh command line, and null
\* when that raises.
executeCommandCapture(run) ==
  IF runCapture(run).raised THEN Returned("null") ELSE runCapture(run)

\* ssh.checkConnection(host, options): the capture of `echo OK` compared
\* with "OK", and false when the capture raises.
checkConnectionCall(run) ==
  IF executeCommandCapture(run).raised
    THEN Returned(FALSE)
    ELSE Returned(checkConnection(executeCommandCapture(run).value))

\* Neither function has been called.
NoConnRun == [ fn |-> "none", capture |-> "null", raised |-> FALSE,
               result |-> FALSE ]

\* ------------------------------------------- executeCommandWithSudoFallback
\* The longest command, in words.
MaxWords == 2

\* The words a command is made of; " " is a blank.
Words == { " ", "sudo", "sudoedit", "pkill" }

\* The characters of a word.
Spelling(word) ==
  CASE word = " "        -> << " " >>
    [] word = "sudo"     -> << "s", "u", "d", "o" >>
    [] word = "sudoedit" -> << "s", "u", "d", "o", "e", "d", "i", "t" >>
    [] word = "pkill"    -> << "p", "k", "i", "l", "l" >>

\* The characters of a command.
RECURSIVE charsOf(_)
charsOf(words) ==
  IF words = << >> THEN << >> ELSE Spelling(Head(words)) \o charsOf(Tail(words))

\* String.prototype.startsWith
startsWith(cs, prefix) ==
  /\ Len(cs) >= Len(prefix)
  /\ SubSeq(cs, 1, Len(prefix)) = prefix

\* A test that looks at the first character position only, without trim().
startsWithSudo_untrimmed(command) ==
  startsWith(charsOf(command), Spelling("sudo"))

\* `command.trim().startsWith("sudo")`
startsWithSudo(command) ==
  startsWith(trim(charsOf(command)), Spelling("sudo"))

\* `sudo ${command}`
withSudo(command) == << "sudo", " " >> \o command

\* How one executeCommand settles: the promise of runWithTimeout resolves,
\* or rejects with the error of a non-zero exit or of the timeout.
AttemptEnds == { "resolved", "Command failed with code 1", "Command timeout" }

\* The commands a call is given, and how the command as given and the
\* command under sudo would each end.
SudoCalls ==
  [ command : UNION { [1..n -> Words] : n \in 1..MaxWords },
    plain : AttemptEnds, sudo : AttemptEnds ]

NoSudoCall == [ command |-> << >>, plain |-> "resolved", sudo |-> "resolved" ]

\* No call has been made.
NoSudoRun == [ pc |-> "idle", ran |-> << >>, settled |-> "none",
               error |-> [attempt |-> 0, message |-> ""] ]

\* The exit codes the error classes of utils/errors carry.
EXIT_VALIDATION == 2
EXIT_NETWORK == 10
EXIT_PROCESS == 20

\* err.exitCode by class; any other error has no exitCode property.
ErrorExitCodes ==
  [ class \in { "ValidationError", "NetworkError", "ProcessError", "SyncError" } |->
      CASE class = "ValidationError" -> EXIT_VALIDATION
        [] class = "NetworkError" -> EXIT_NETWORK
        [] class = "ProcessError" -> EXIT_PROCESS
        [] class = "SyncError" -> EXIT_PROCESS ]

exitStatus_one(err) == 1

\* `err.exitCode || 1`
exitStatus(err) ==
  IF err.class \in DOMAIN ErrorExitCodes
    THEN IF ErrorExitCodes[err.class] # 0 THEN ErrorExitCodes[err.class] ELSE 1
    ELSE 1

\* process.exit has not been called.
NoExit == [ set |-> FALSE, code |-> 0, logged |-> "" ]

InitUnit ==
  /\ sudoEnv = NoSudoCall
  /\ sudoRun = NoSudoRun
  /\ cliExit = NoExit
  /\ connEnv = NoCaptureRun
  /\ connRun = NoConnRun
  /\ checkEnv = NoEnv
  /\ checkRun = NoCheckRun
  /\ op = NoOp
  /\ opLog = << >>

\* CONST.GIT_RETRY_COUNT and CONST.GIT_RETRY_DELAY (milliseconds).
GIT_RETRY_COUNT == 3
GIT_RETRY_DELAY == 2000

\* git.push has not been called.
NoPush == [ called |-> FALSE, attempts |-> << >>, sleeps |-> << >>,
            returned |-> "none" ]

\* What the remote answers to each `git push` a call may make: TRUE when
\* the command exits 0.
PushAnswers == [ 1..(GIT_RETRY_COUNT + 1) -> BOOLEAN ]

\* The loop of git.push from a given attempt on: run the command; on success
\* return true; on failure sleep and go on while attempts remain, else raise
\* ProcessError. A loop that ends without either returns undefined.
RECURSIVE pushFrom(_, _, _, _)
pushFrom(attempt, retries, answers, run) ==
  IF attempt > retries
  THEN [run EXCEPT !.returned = "undefined"]
  ELSE IF answers[attempt]
  THEN [run EXCEPT !.attempts = Append(@, TRUE), !.returned = "true"]
  ELSE IF attempt < retries
  THEN pushFrom(attempt + 1, retries, answers,
                [run EXCEPT !.attempts = Append(@, FALSE),
                            !.sleeps = Append(@, GIT_RETRY_DELAY)])
  ELSE [run EXCEPT !.attempts = Append(@, FALSE), !.returned = "ProcessError"]

push_oneMore(retries, answers) ==
  pushFrom(1, retries + 1, answers, [NoPush EXCEPT !.called = TRUE])

\* git.push(branch, { logger, cwd, retries }).
push(retries, answers) ==
  pushFrom(1, retries, answers, [NoPush EXCEPT !.called = TRUE])

InitEffects ==
  /\ pushRun = NoPush
  /\ dirsCreated = FALSE
  /\ metadataWritten = FALSE
  /\ joined = FALSE
  /\ stopTargets = << >>
  /\ gitCalls = 0

\* orchestrate(config, logger) has been called and has not run yet.
Init ==
  /\ config \in Configs
  /\ planSteps = << >>
  /\ opc = "validate"
  /\ stepIdx = 0
  /\ inProgress = {}
  /\ started = << >>
  /\ results = NoResults
  /\ thrown = NoError
  /\ error = NoError
  /\ report = Unset
  /\ errorLog = << >>
  /\ InitEffects
  /\ InitStop
  /\ InitUnit
  /\ InitDetect
  /\ InitPull
  /\ localFiles = {}
  /\ remote = UnknownRemote

\* ------------------------------------------------------------ orchestrate
\* execute's loop is at the step called name.
AtStep(name) ==
  /\ opc = "execute"
  /\ stepIdx \in DOMAIN planSteps
  /\ planSteps[stepIdx].name = name

\* The stage called name has started, and has neither ended nor raised.
Running(name) == AtStep(name) /\ name \in inProgress /\ thrown = NoError

\* A stage end that stores its result in a results map made anew.
CompleteStep_freshMap(name, key, value) ==
  /\ results' = [NoResults EXCEPT ![key] = value]
  /\ inProgress' = inProgress \ {name}
  /\ stepIdx' = stepIdx + 1
  /\ UNCHANGED << config, planSteps, opc, started, thrown, error, report, errorLog >>

\* `results.<key> = await <stage>`: the stage ends and the loop moves on.
CompleteStep(name, key, value) ==
  /\ results' = [results EXCEPT ![key] = value]
  /\ inProgress' = inProgress \ {name}
  /\ stepIdx' = stepIdx + 1
  /\ UNCHANGED << config, planSteps, opc, started, thrown, error, report, errorLog >>

\* The stage raises inside execute's try block.
RaiseInStep(err) ==
  /\ thrown' = err
  /\ UNCHANGED << config, planSteps, opc, stepIdx, inProgress, started, results,
                  error, report, errorLog >>

\* orchestrate: validate(input) throws, or plan(input) is computed.
Validate ==
  /\ opc = "validate"
  /\ IF ConfigValidate(config) # << >>
       THEN /\ opc' = "failed"
            /\ error' = Err("ValidationError", "Validation failed")
            /\ UNCHANGED << planSteps, stepIdx >>
       ELSE /\ opc' = "execute"
            /\ planSteps' = plan(config)
            /\ stepIdx' = 1
            /\ UNCHANGED error
  /\ UNCHANGED << config, inProgress, started, results, thrown, report, errorLog >>
  /\ UNCHANGED << effectVars, detVars, pullVars, stopVars, unitVars >>

\* `if (!step.enabled) continue`
SkipStep ==
  /\ opc = "execute"
  /\ stepIdx \in DOMAIN planSteps
  /\ ~planSteps[stepIdx].enabled
  /\ inProgress = {}
  /\ thrown = NoError
  /\ stepIdx' = stepIdx + 1
  /\ UNCHANGED << config, planSteps, opc, inProgress, started, results, thrown,
                  error, report, errorLog >>
  /\ UNCHANGED << effectVars, detVars, pullVars, stopVars, unitVars >>

\* The loop enters the switch for an enabled step; the previous iteration's
\* await has returned.
StartStep ==
  /\ opc = "execute"
  /\ stepIdx \in DOMAIN planSteps
  /\ planSteps[stepIdx].enabled
  /\ inProgress = {}
  /\ thrown = NoError
  /\ inProgress' = { planSteps[stepIdx].name }
  /\ started' = Append(started, planSteps[stepIdx].name)
  /\ UNCHANGED << config, planSteps, opc, stepIdx, results, thrown, error, report,
                  errorLog >>
  /\ UNCHANGED << effectVars, detVars, pullVars, stopVars, unitVars >>

\* A catch block that logs the error and lets the loop go on.
StepCatch_swallow ==
  /\ opc = "execute"
  /\ thrown # NoError
  /\ errorLog' = Append(errorLog, [step |-> planSteps[stepIdx].name,
                                   message |-> thrown.message])
  /\ thrown' = NoError
  /\ inProgress' = {}
  /\ stepIdx' = stepIdx + 1
  /\ UNCHANGED << config, planSteps, opc, started, results, error, report >>
  /\ UNCHANGED << effectVars, detVars, pullVars, stopVars, unitVars >>

\* `catch (err) { logger.error(...); throw err; }`: orchestrate rejects with
\* the stage's error; nothing is undone.
StepCatch ==
  /\ opc = "execute"
  /\ thrown # NoError
  /\ opc' = "failed"
  /\ errorLog' = Append(errorLog, [step |-> planSteps[stepIdx].name,
                                   message |-> thrown.message])
  /\ error' = thrown
  /\ inProgress' = {}
  /\ UNCHANGED << config, planSteps, stepIdx, started, results, thrown, report >>
  /\ UNCHANGED << effectVars, detVars, pullVars, stopVars, unitVars >>

\* The loop is over: report(execResult, input).
Report ==
  /\ opc = "execute"
  /\ stepIdx > Len(planSteps)
  /\ thrown = NoError
  /\ opc' = "reported"
  /\ report' = [set |-> TRUE, success |-> TRUE, results |-> results]
  /\ UNCHANGED << config, planSteps, stepIdx, inProgress, started, results, thrown,
                  error, errorLog >>
  /\ UNCHANGED << effectVars, detVars, pullVars, stopVars, unitVars >>

\* setupDirectories: ensureDirs creates the directories (or throws); the
\* failure of setupMetaJson is only logged.
SetupDirectories ==
  /\ Running("setup_directories")
  /\ \E ensured \in BOOLEAN, metaOk \in BOOLEAN :
       IF ensured
         THEN /\ dirsCreated' = TRUE
              /\ metadataWritten' = metaOk
              /\ CompleteStep("setup_directories", "setupDirs",
                              [set |-> TRUE, success |-> TRUE, metadata |-> metaOk])
         ELSE /\ RaiseInStep(Err("Error", "EACCES: permission denied, mkdir"))
              /\ UNCHANGED << dirsCreated, metadataWritten >>
  /\ UNCHANGED << joined, stopTargets, gitCalls, pushRun >>
  /\ UNCHANGED << detVars, pullVars, stopVars, unitVars >>

\* What connectTailscale can meet.
ConnectOutcomes ==
  { "connected", "install failed", "tailscale up failed", "never Running",
    "no IP and no hostname" }

\* The most status checks waitForCondition fits into CONNECTION_TIMEOUT.
MaxPolls == 2

\* status.BackendState as one status check reads it; "null" is a check whose
\* getStatus returned null.
BackendStates == { "Running", "Starting", "null" }

\* What connectTailscale meets: whether install succeeds, whether
\* `tailscale up` exits with 0, what the status checks made before the
\* timeout read, and whether getIP or getHostname gives a value.
ConnectEnvs ==
  [ installed : BOOLEAN, up : BOOLEAN,
    polls : UNION { [1..n -> BackendStates] : n \in 1..MaxPolls },
    address : BOOLEAN ]

\* isLoggedIn: `status && status.BackendState === "Running"`
isLoggedIn(state) == state = "Running"

\* A wait that reports success without a status check.
waitForCondition_noCheck(polls) == TRUE

\* waitForCondition: true at the first check that holds, false when the
\* timeout passes without one.
waitForCondition(polls) == \E i \in DOMAIN polls : isLoggedIn(polls[i])

\* connectTailscale and tailscale.login: the first step that fails decides.
connectOutcome(env) ==
  IF ~env.installed THEN "install failed"
  ELSE IF ~env.up THEN "tailscale up failed"
  ELSE IF ~waitForCondition(env.polls) THEN "never Running"
  ELSE IF ~env.address THEN "no IP and no hostname"
  ELSE "connected"

\* connectTailscale: install, login (tailscale up, then wait for the backend
\* to be Running), getIP / getHostname.
ConnectTailscale ==
  /\ Running("connect_tailscale")
  /\ \E outcome \in { connectOutcome(env) : env \in ConnectEnvs } :
       IF outcome = "connected"
         THEN /\ joined' = TRUE
              /\ CompleteStep("connect_tailscale", "tailscale",
                              [set |-> TRUE, success |-> TRUE])
         ELSE /\ RaiseInStep(Err("ProcessError", outcome))
              /\ UNCHANGED joined
  /\ UNCHANGED << dirsCreated, metadataWritten, stopTargets, gitCalls, pushRun >>
  /\ UNCHANGED << detVars, pullVars, stopVars, unitVars >>

\* ---------------------------------------------------- detectPreviousRunner
DetectReset ==
  /\ dpc' = "idle"
  /\ status' = NoStatus
  /\ matchingPeers' = << >>
  /\ accessiblePeers' = << >>
  /\ idx' = 0
  /\ probeLog' = {}
  /\ detResult' = NotFound

\* execute returns res.
DetectDone(res) ==
  /\ dpc' = "done"
  /\ detResult' = res

\* parseInput, validate, then execute up to the end of the filter loop:
\* getStatus, the early return without peers, the loop over status.Peer.
DetectFilter ==
  /\ Running("detect_previous_runner")
  /\ dpc = "idle"
  /\ LET tags == parseTags(config.tailscaleTags) IN
     IF tags = << >>
       THEN /\ RaiseInStep(Err("ValidationError",
                               "Validation failed: Tailscale tag is required"))
            /\ UNCHANGED detVars
       ELSE /\ \E snapshot \in Statuses :
                 /\ status' = snapshot
                 /\ IF ~snapshot.available \/ ~snapshot.hasPeer
                      THEN /\ DetectDone(NotFound)
                           /\ UNCHANGED << matchingPeers, idx >>
                      ELSE /\ matchingPeers' = matchingPeersOf(snapshot, tags)
                           /\ IF matchingPeers' = << >>
                                THEN DetectDone(NotFound) /\ UNCHANGED idx
                                ELSE /\ dpc' = "probe"
                                     /\ idx' = 1
                                     /\ UNCHANGED detResult
            /\ UNCHANGED << accessiblePeers, probeLog >>
            /\ UNCHANGED orchVars
  /\ UNCHANGED << effectVars, pullVars, stopVars, unitVars >>

\* A probe loop without the test of the address: every peer gets
\* ssh.checkConnection.
DetectProbe_withoutAddressTest ==
  /\ Running("detect_previous_runner")
  /\ dpc = "probe"
  /\ idx <= Len(matchingPeers)
  /\ LET peer == matchingPeers[idx] IN
     \E reply \in Replies :
       /\ matchingPeers' =
            markAccessible(matchingPeers, peer.id, checkConnection(reply))
       /\ probeLog' = probeLog \cup { << peer.id, reply >> }
  /\ idx' = idx + 1
  /\ UNCHANGED << dpc, status, accessiblePeers, detResult >>
  /\ UNCHANGED << orchVars, effectVars, pullVars, stopVars, unitVars >>

\* One pass of the loop `for (const peer of matchingPeers)`: a peer without
\* an address is not probed, any other gets ssh.checkConnection.
DetectProbe ==
  /\ Running("detect_previous_runner")
  /\ dpc = "probe"
  /\ idx <= Len(matchingPeers)
  /\ LET peer == matchingPeers[idx] IN
     IF peer.ips = << >>
       THEN /\ matchingPeers' = markAccessible(matchingPeers, peer.id, FALSE)
            /\ UNCHANGED probeLog
       ELSE \E reply \in Replies :
              /\ matchingPeers' =
                   markAccessible(matchingPeers, peer.id, checkConnection(reply))
              /\ probeLog' = probeLog \cup { << peer.id, reply >> }
  /\ idx' = idx + 1
  /\ UNCHANGED << dpc, status, accessiblePeers, detResult >>
  /\ UNCHANGED << orchVars, effectVars, pullVars, stopVars, unitVars >>

\* After the probe loop: accessiblePeers, and the early return without any.
DetectProbed ==
  /\ Running("detect_previous_runner")
  /\ dpc = "probe"
  /\ idx > Len(matchingPeers)
  /\ accessiblePeers' = accessiblePeersOf(matchingPeers)
  /\ IF accessiblePeers' = << >>
       THEN DetectDone(NotFound) /\ UNCHANGED idx
       ELSE dpc' = "check" /\ idx' = 1 /\ UNCHANGED detResult
  /\ UNCHANGED << status, matchingPeers, probeLog >>
  /\ UNCHANGED << orchVars, effectVars, pullVars, stopVars, unitVars >>

\* One pass of the loop `for (const peer of accessiblePeers)`:
\* checkRunnerData, and the metadata of a peer that has data.
DetectCheckData ==
  /\ Running("detect_previous_runner")
  /\ dpc = "check"
  /\ idx <= Len(accessiblePeers)
  /\ LET peer == accessiblePeers[idx] IN
     IF peer.ips = << >>
       THEN accessiblePeers' = [accessiblePeers EXCEPT ![idx].hasData = FALSE]
       ELSE \E check \in DataChecks :
              accessiblePeers' = markData(accessiblePeers, peer.id, check)
  /\ idx' = idx + 1
  /\ UNCHANGED << dpc, status, matchingPeers, probeLog, detResult >>
  /\ UNCHANGED << orchVars, effectVars, pullVars, stopVars, unitVars >>

\* After the data loop: rank the peers with data and return the first.
DetectSelect ==
  /\ Running("detect_previous_runner")
  /\ dpc = "check"
  /\ idx > Len(accessiblePeers)
  /\ DetectDone(selectPeer(accessiblePeers))
  /\ UNCHANGED << status, matchingPeers, accessiblePeers, idx, probeLog >>
  /\ UNCHANGED << orchVars, effectVars, pullVars, stopVars, unitVars >>

\* report(execResult): `results.detection = await detectPreviousRunner(...)`.
DetectReturn ==
  /\ Running("detect_previous_runner")
  /\ dpc = "done"
  /\ CompleteStep("detect_previous_runner", "detection", DetectionReport(detResult))
  /\ DetectReset
  /\ UNCHANGED << effectVars, pullVars, stopVars, unitVars >>

\* ---------------------------------------------------------------- pullData
\* The entry of pullLog for a call that begins; errMsg is the text of the
\* failure that stands: the caught err, then scpErr.
PullEntry(rd, before, state) ==
  [ remote |-> rd, before |-> before, attempts |-> << >>, via |-> "none",
    moved |-> 0, state |-> state, syncedSize |-> 0, errMsg |-> "" ]

LastPull == pullLog[Len(pullLog)]

LogPull(entry) == pullLog' = [pullLog EXCEPT ![Len(pullLog)] = entry]

\* pullData up to the first transport: the early return without a previous
\* runner, parseInput, validate (which throws without a remote host), plan,
\* and ensureDir of the destination.
PullEnter(peer, rd, before) ==
  /\ pullPeer' = peer
  /\ pullPlan' = pullPlanOf(peer)
  /\ pullRet' = NoExecResult
  /\ IF peer = NullPeer
       THEN /\ ppc' = "returned"
            /\ pullErr' = NoError
            /\ pullLog' = Append(pullLog, PullEntry(rd, before, "returned"))
       ELSE IF pullPlanOf(peer).hasHost
         THEN /\ ppc' = "rsync"
              /\ pullErr' = NoError
              /\ pullLog' = Append(pullLog, PullEntry(rd, before, "running"))
         ELSE /\ ppc' = "raised"
              /\ pullErr' = Err("ValidationError",
                                "Validation failed: Remote host is required")
              /\ pullLog' = Append(pullLog, PullEntry(rd, before, "raised"))

\* execute returns { success: true, size, skipped } and pullData returns
\* report(execResult).
PullReturned(size, skipped, via, moved) ==
  /\ ppc' = "returned"
  /\ pullRet' = ExecResult(size, skipped)
  /\ LogPull([LastPull EXCEPT
                !.attempts = Append(@, ppc), !.via = via, !.moved = moved,
                !.state = "returned", !.errMsg = "",
                !.syncedSize = pullReport(ExecResult(size, skipped)).syncedSize])
  /\ UNCHANGED pullErr

\* An rsync attempt whose catch block ends the call as skipped on every
\* failure, whatever its message.
PullRsync_anyFailureSkips ==
  /\ ppc = "rsync"
  /\ \E o \in RsyncOutcomes(remote, localFiles) :
       /\ localFiles' = o.local
       /\ IF o.ok
            THEN PullReturned(getDirSize(o.local), getDirSize(o.local) = 0,
                              "rsync", o.moved)
            ELSE /\ ppc' = "returned"
                 /\ pullRet' = ExecResult(0, TRUE)
                 /\ LogPull([LastPull EXCEPT
                               !.attempts = Append(@, "rsync"),
                               !.errMsg = o.msg, !.state = "returned"])
                 /\ UNCHANGED pullErr
  /\ UNCHANGED << pullPeer, pullPlan, remote >>
  /\ UNCHANGED << orchVars, effectVars, detVars, stopVars, unitVars >>

\* The catch block of execute returns { success: true, size: 0, skipped: true }
\* on a message that names a missing source.
PullSkippedAfter(msg) ==
  /\ ppc' = "returned"
  /\ pullRet' = ExecResult(0, TRUE)
  /\ LogPull([LastPull EXCEPT
                !.attempts = Append(@, "rsync"), !.errMsg = msg,
                !.state = "returned",
                !.syncedSize = pullReport(ExecResult(0, TRUE)).syncedSize])
  /\ UNCHANGED pullErr

\* The rsync attempt of execute: its success branch, and in the catch block
\* the test of the message that ends the call without a second transport.
PullRsync ==
  /\ ppc = "rsync"
  /\ \E o \in RsyncOutcomes(remote, localFiles) :
       /\ localFiles' = o.local
       /\ IF o.ok
            THEN PullReturned(getDirSize(o.local), getDirSize(o.local) = 0,
                              "rsync", o.moved)
            ELSE IF includesNoSuchFile(o.msg)
              THEN PullSkippedAfter(o.msg)
              ELSE /\ ppc' = "scp"
                   /\ LogPull([LastPull EXCEPT !.attempts = Append(@, "rsync"),
                                               !.errMsg = o.msg])
                   /\ UNCHANGED << pullRet, pullErr >>
  /\ UNCHANGED << pullPeer, pullPlan, remote >>
  /\ UNCHANGED << orchVars, effectVars, detVars, stopVars, unitVars >>

\* `throw new SyncError(`Failed to sync data: ${scpErr.message}`)`
SyncErrorOf(msg) == Err("SyncError", "Failed to sync data: " \o msg)

\* An scp fallback whose catch block returns { success: false } instead of
\* throwing.
PullScp_returnsFailure ==
  /\ ppc = "scp"
  /\ \E o \in ScpOutcomes(remote, localFiles) :
       /\ localFiles' = o.local
       /\ IF o.ok
            THEN PullReturned(getDirSize(o.local), FALSE, "scp", o.moved)
            ELSE /\ ppc' = "returned"
                 /\ pullRet' = NoExecResult
                 /\ LogPull([LastPull EXCEPT !.attempts = Append(@, "scp"),
                               !.state = "returned", !.errMsg = o.msg])
                 /\ UNCHANGED pullErr
  /\ UNCHANGED << pullPeer, pullPlan, remote >>
  /\ UNCHANGED << orchVars, effectVars, detVars, stopVars, unitVars >>

\* The scp fallback: success with the size of the destination, or SyncError
\* carrying scp's message.
PullScp ==
  /\ ppc = "scp"
  /\ \E o \in ScpOutcomes(remote, localFiles) :
       /\ localFiles' = o.local
       /\ IF o.ok
            THEN PullReturned(getDirSize(o.local), FALSE, "scp", o.moved)
            ELSE /\ ppc' = "raised"
                 /\ pullErr' = SyncErrorOf(o.msg)
                 /\ LogPull([LastPull EXCEPT !.attempts = Append(@, "scp"),
                               !.state = "raised", !.errMsg = o.msg])
                 /\ UNCHANGED pullRet
  /\ UNCHANGED << pullPeer, pullPlan, remote >>
  /\ UNCHANGED << orchVars, effectVars, detVars, stopVars, unitVars >>

\* A pull stage that, without a previous runner, switches the later steps off
\* in the plan.
PullSkipped_disableRest ==
  /\ Running("pull_data")
  /\ noPreviousRunner(results)
  /\ results' = [results EXCEPT !.pullData = Skipped]
  /\ inProgress' = inProgress \ { "pull_data" }
  /\ planSteps' = [ i \in DOMAIN planSteps |->
                      IF i > stepIdx THEN Step(planSteps[i].name, FALSE)
                                     ELSE planSteps[i] ]
  /\ stepIdx' = stepIdx + 1
  /\ UNCHANGED << config, opc, started, thrown, error, report, errorLog >>
  /\ UNCHANGED << effectVars, detVars, pullVars, stopVars, unitVars >>

\* case "pull_data" without a previous runner.
PullSkipped ==
  /\ Running("pull_data")
  /\ noPreviousRunner(results)
  /\ CompleteStep("pull_data", "pullData", Skipped)
  /\ UNCHANGED << effectVars, detVars, pullVars, stopVars, unitVars >>

\* A pull stage that reads from another address than the stored peer's.
PullStart_otherHost ==
  /\ Running("pull_data")
  /\ ~noPreviousRunner(results)
  /\ ppc = "idle"
  /\ pullLog = << >>
  /\ \E rd \in RemoteDirs, before \in { {}, { 1 } } :
       /\ remote' = rd
       /\ localFiles' = before
       /\ PullEnter([results.detection.previousRunner EXCEPT !.ips = << Addr("100.", 9) >>],
                    rd, before)
  /\ UNCHANGED << orchVars, effectVars, detVars, stopVars, unitVars >>

\* case "pull_data": dataSync.pullData(config, previousRunner, logger) is
\* called; rd is the state of the predecessor's directory at that time and
\* before what the local .runner-data directory already holds (nothing, or
\* one file of an earlier run).
PullStart ==
  /\ Running("pull_data")
  /\ ~noPreviousRunner(results)
  /\ ppc = "idle"
  /\ pullLog = << >>
  /\ \E rd \in RemoteDirs, before \in { {}, { 1 } } :
       /\ remote' = rd
       /\ localFiles' = before
       /\ PullEnter(results.detection.previousRunner, rd, before)
  /\ UNCHANGED << orchVars, effectVars, detVars, stopVars, unitVars >>

\* `results.pullData = await dataSync.pullData(...)` returns report(execResult).
PullReturn ==
  /\ Running("pull_data")
  /\ ppc = "returned"
  /\ CompleteStep("pull_data", "pullData", pullReport(pullRet))
  /\ ppc' = "idle"
  /\ UNCHANGED << pullPeer, pullPlan, localFiles, remote, pullRet, pullErr, pullLog >>
  /\ UNCHANGED << effectVars, detVars, stopVars, unitVars >>

\* pullData rejects: the error reaches execute's catch block.
PullRaise ==
  /\ Running("pull_data")
  /\ ppc = "raised"
  /\ RaiseInStep(pullErr)
  /\ ppc' = "idle"
  /\ UNCHANGED << pullPeer, pullPlan, localFiles, remote, pullRet, pullErr, pullLog >>
  /\ UNCHANGED << effectVars, detVars, stopVars, unitVars >>

\* ----------------------------------------------------- stop_remote_services
StopSkipped ==
  /\ Running("stop_remote_services")
  /\ noPreviousRunner(results)
  /\ CompleteStep("stop_remote_services", "stopServices", Skipped)
  /\ UNCHANGED << effectVars, detVars, pullVars, stopVars, unitVars >>

\* serviceController.stopRemoteServices(config, previousRunner, logger):
\* best effort, it returns whether or not the services stopped.
StopRemoteServices ==
  /\ Running("stop_remote_services")
  /\ ~noPreviousRunner(results)
  /\ stopTargets' = Append(stopTargets, results.detection.previousRunner.id)
  /\ \E stopped \in BOOLEAN :
       CompleteStep("stop_remote_services", "stopServices",
                    [set |-> TRUE, success |-> TRUE, stopped |-> stopped])
  /\ UNCHANGED << dirsCreated, metadataWritten, joined, gitCalls, pushRun >>
  /\ UNCHANGED << detVars, pullVars, stopVars, unitVars >>

\* ---------------------------------------------------------------- push_to_git
PushSkipped ==
  /\ Running("push_to_git")
  /\ noPreviousRunner(results)
  /\ CompleteStep("push_to_git", "pushGit", Skipped)
  /\ UNCHANGED << effectVars, detVars, pullVars, stopVars, unitVars >>

\* What pushToGit can meet before git.push is reached.
PushOutcomes ==
  { "git not available", "not a git repository", "committed", "no changes" }

\* A push stage that fails when git or the repository is missing.
PushToGit_requiresGit ==
  /\ Running("push_to_git")
  /\ ~noPreviousRunner(results)
  /\ \E outcome \in PushOutcomes :
       CASE outcome \in { "git not available", "not a git repository" } ->
              /\ RaiseInStep(Err("ProcessError", "Git is not available"))
              /\ UNCHANGED << gitCalls, pushRun >>
         [] outcome = "no changes" ->
              /\ CompleteStep("push_to_git", "pushGit",
                              [set |-> TRUE, success |-> TRUE, noChanges |-> TRUE])
              /\ gitCalls' = gitCalls + 1
              /\ UNCHANGED pushRun
         [] outcome = "committed" ->
              /\ gitCalls' = gitCalls + 1
              /\ \E answers \in PushAnswers :
                   /\ pushRun' = push(GIT_RETRY_COUNT, answers)
                   /\ IF pushRun'.returned = "ProcessError"
                      THEN RaiseInStep(Err("ProcessError",
                                           "Git push failed after 3 attempts"))
                      ELSE CompleteStep("push_to_git", "pushGit",
                                        [set |-> TRUE, success |-> TRUE])
  /\ UNCHANGED << dirsCreated, metadataWritten, joined, stopTargets >>
  /\ UNCHANGED << detVars, pullVars, stopVars, unitVars >>

\* pushToGit: without git or a repository { success: false }; otherwise
\* git.commitAndPush, which returns false when there is nothing to commit
\* and else awaits git.push with the default retries, returning true after
\* it or raising the ProcessError it raised.
PushToGit ==
  /\ Running("push_to_git")
  /\ ~noPreviousRunner(results)
  /\ \E outcome \in PushOutcomes :
       CASE outcome \in { "git not available", "not a git repository" } ->
              /\ CompleteStep("push_to_git", "pushGit",
                              [set |-> TRUE, success |-> FALSE])
              /\ UNCHANGED << gitCalls, pushRun >>
         [] outcome = "no changes" ->
              /\ CompleteStep("push_to_git", "pushGit",
                              [set |-> TRUE, success |-> TRUE, noChanges |-> TRUE])
              /\ gitCalls' = gitCalls + 1
              /\ UNCHANGED pushRun
         [] outcome = "committed" ->
              /\ gitCalls' = gitCalls + 1
              /\ \E answers \in PushAnswers :
                   /\ pushRun' = push(GIT_RETRY_COUNT, answers)
                   /\ IF pushRun'.returned = "ProcessError"
                      THEN RaiseInStep(Err("ProcessError",
                                           "Git push failed after 3 attempts"))
                      ELSE CompleteStep("push_to_git", "pushGit",
                                        [set |-> TRUE, success |-> TRUE])
  /\ UNCHANGED << dirsCreated, metadataWritten, joined, stopTargets >>
  /\ UNCHANGED << detVars, pullVars, stopVars, unitVars >>

\* --------------------------------------------------------- bin/runner-sync.js
\* The async main of the command line: orchestrate returned, and the process
\* exits with 0 when result.success and 1 otherwise; or it rejected, and the
\* message is logged and the process exits with `err.exitCode || 1`.
CliMain ==
  /\ opc \in { "reported", "failed" }
  /\ ~cliExit.set
  /\ cliExit' =
       IF opc = "reported"
         THEN [ set |-> TRUE, code |-> IF report.success THEN 0 ELSE 1,
                logged |-> "" ]
         ELSE [ set |-> TRUE, code |-> exitStatus(error),
                logged |-> error.message ]
  /\ UNCHANGED << orchVars, effectVars, detVars, pullVars, stopVars, checkVars,
                  opVars, connVars, sudoVars >>

\* ------------------------------------------------------------ specifications
Next ==
  \/ Validate
  \/ SkipStep
  \/ StartStep
  \/ StepCatch
  \/ Report
  \/ SetupDirectories
  \/ ConnectTailscale
  \/ DetectFilter
  \/ DetectProbe
  \/ DetectProbed
  \/ DetectCheckData
  \/ DetectSelect
  \/ DetectReturn
  \/ PullSkipped
  \/ PullStart
  \/ PullRsync
  \/ PullScp
  \/ PullReturn
  \/ PullRaise
  \/ StopSkipped
  \/ StopRemoteServices
  \/ PushSkipped
  \/ PushToGit
  \/ CliMain

\* One run of orchestrate(config, logger).
Spec == Init /\ [][Next]_vars

\* The predecessors the standalone pull is called with: with and without
\* metadata, on the overlay range.
PullPeers ==
  { [MatchedPeer(PeerOf("newer", 1)) EXCEPT
       !.accessible = TRUE, !.hasData = TRUE, !.metadata = JSONparse(t)] :
       t \in { "{runnerDataDir}", "null" } }

\* dataSync.pullData called on its own, against a directory that does not
\* change between the calls.
InitPullOnly ==
  /\ config = [ tailscaleEnable |-> TRUE, gitEnabled |-> FALSE,
                tailscaleClientId |-> "client-id",
                tailscaleClientSecret |-> "client-secret",
                tailscaleTags |-> << Tag(TRUE, "ci") >> ]
  /\ planSteps = << >>
  /\ opc = "standalone"
  /\ stepIdx = 0
  /\ inProgress = {}
  /\ started = << >>
  /\ results = NoResults
  /\ thrown = NoError
  /\ error = NoError
  /\ report = Unset
  /\ errorLog = << >>
  /\ InitEffects
  /\ InitStop
  /\ InitUnit
  /\ InitDetect
  /\ ppc = "idle"
  /\ pullPeer \in PullPeers
  /\ pullPlan = NoPlan
  /\ pullRet = NoExecResult
  /\ pullErr = NoError
  /\ pullLog = << >>
  /\ localFiles \in SUBSET Files
  /\ remote \in RemoteDirs

\* pullData(config, previousRunner, logger) is called once more.
PullCall ==
  /\ opc = "standalone"
  /\ ppc = "idle"
  /\ Len(pullLog) < MaxPulls
  /\ PullEnter(pullPeer, remote, localFiles)
  /\ UNCHANGED << remote, localFiles >>
  /\ UNCHANGED << orchVars, effectVars, detVars, stopVars, unitVars >>

\* The call returns or rejects to its caller.
PullFinish ==
  /\ opc = "standalone"
  /\ ppc \in { "returned", "raised" }
  /\ ppc' = "idle"
  /\ UNCHANGED << pullPeer, pullPlan, localFiles, remote, pullRet, pullErr, pullLog >>
  /\ UNCHANGED << orchVars, effectVars, detVars, stopVars, unitVars >>

NextPull == PullCall \/ PullRsync \/ PullScp \/ PullFinish

SpecPull == InitPullOnly /\ [][NextPull]_vars

\* ------------------------------------------------- stopServices on its own
\* What stopRemoteServices hands to the orchestrator once ssh.stopServices
\* has returned: the names it asked to stop.
StopResult(svc) ==
  [set |-> TRUE, raised |-> FALSE, success |-> TRUE, stoppedServices |-> svc.list]

LogLine(level, text) == [level |-> level, text |-> text]

\* A background job of the remote command: one per service, systemctl first.
NewJob(name) == [service |-> name, next |-> "systemctl", attempts |-> << >>]

\* `(A ; B) &`: pkill runs whatever systemctl returned.
jobStep_sequence(job, ok) ==
  [job EXCEPT !.attempts = Append(@, << job.next, ok >>),
              !.next = IF job.next = "systemctl" THEN "pkill" ELSE "done"]

\* `(sudo systemctl stop S || sudo pkill -f S) &`: the shell runs pkill only
\* when systemctl exited non-zero.
jobStep(job, ok) ==
  [job EXCEPT !.attempts = Append(@, << job.next, ok >>),
              !.next = IF job.next = "systemctl" /\ ~ok THEN "pkill" ELSE "done"]

InitStopOnly ==
  /\ config = [ tailscaleEnable |-> TRUE, gitEnabled |-> FALSE,
                tailscaleClientId |-> "client-id",
                tailscaleClientSecret |-> "client-secret",
                tailscaleTags |-> << Tag(TRUE, "ci") >> ]
  /\ planSteps = << >>
  /\ opc = "standalone"
  /\ stepIdx = 0
  /\ inProgress = {}
  /\ started = << >>
  /\ results = NoResults
  /\ thrown = NoError
  /\ error = NoError
  /\ report = Unset
  /\ errorLog = << >>
  /\ InitEffects
  /\ InitDetect
  /\ InitPull
  /\ localFiles = {}
  /\ remote = UnknownRemote
  /\ InitStop
  /\ InitUnit

\* stopServices(host, services, { logger }) up to the await of
\* executeCommand: nothing to do for an absent or empty list, otherwise one
\* command that starts every stop in the background.
StopCall ==
  /\ opc = "standalone"
  /\ spc = "idle"
  /\ \E svc \in ServiceLists :
       /\ services' = svc
       /\ IF noServices(svc)
            THEN /\ stopLog' = Append(stopLog, LogLine("info", "No services to stop"))
                 /\ spc' = "returned"
                 /\ stopRet' = StopResult(svc)
                 /\ UNCHANGED sshCommands
            ELSE /\ stopLog' = Append(stopLog, LogLine("info", "Stopping services"))
                 /\ sshCommands' = Append(sshCommands,
                                          sshArgv(StopHost, bgCommand(svc.list)))
                 /\ spc' = "dispatch"
                 /\ UNCHANGED stopRet
  /\ UNCHANGED << dispatch, remoteJobs >>
  /\ UNCHANGED << orchVars, effectVars, detVars, pullVars, unitVars >>

\* A catch block that hands the error on.
StopDispatched_rethrow ==
  /\ spc = "dispatch"
  /\ \E out \in ExecOutcomes :
       /\ dispatch' = out
       /\ remoteJobs' = IF out.delivered
                          THEN [k \in DOMAIN services.list |-> NewJob(services.list[k])]
                          ELSE remoteJobs
       /\ IF out.kind = "close" /\ out.code = "0"
            THEN /\ stopLog' = Append(stopLog, LogLine("success", "Sent parallel stop commands"))
                 /\ spc' = "wait"
                 /\ UNCHANGED stopRet
            ELSE /\ stopLog' = stopLog
                 /\ spc' = "returned"
                 /\ stopRet' = [StopResult(services) EXCEPT !.raised = TRUE,
                                                           !.success = FALSE]
  /\ UNCHANGED << services, sshCommands >>
  /\ UNCHANGED << orchVars, effectVars, detVars, pullVars, unitVars >>

\* executeCommand(host, bgCommand, { timeout: 3000 }) settles.  Resolved:
\* log success and wait 2 s.  Rejected: the catch logs, success when the
\* message names a lost connection or a time-out and a warning otherwise,
\* and the function returns.
StopDispatched ==
  /\ spc = "dispatch"
  /\ \E out \in ExecOutcomes :
       /\ dispatch' = out
       /\ remoteJobs' = IF out.delivered
                          THEN [k \in DOMAIN services.list |-> NewJob(services.list[k])]
                          ELSE remoteJobs
       /\ IF out.kind = "close" /\ out.code = "0"
            THEN /\ stopLog' = Append(stopLog, LogLine("success", "Sent parallel stop commands"))
                 /\ spc' = "wait"
                 /\ UNCHANGED stopRet
            ELSE LET msg == rejectionMessage(out, sshCommands[Len(sshCommands)], "3000") IN
                 /\ stopLog' = Append(stopLog,
                      IF countsAsSent(msg)
                        THEN LogLine("success", "Stop commands sent (connection may be lost)")
                        ELSE LogLine("warn", "Failed to stop services"))
                 /\ spc' = "returned"
                 /\ stopRet' = StopResult(services)
  /\ UNCHANGED << services, sshCommands >>
  /\ UNCHANGED << orchVars, effectVars, detVars, pullVars, unitVars >>

\* `await new Promise(resolve => setTimeout(resolve, 2000))` is over.
StopWaited ==
  /\ spc = "wait"
  /\ spc' = "returned"
  /\ stopRet' = StopResult(services)
  /\ UNCHANGED << services, sshCommands, dispatch, stopLog, remoteJobs >>
  /\ UNCHANGED << orchVars, effectVars, detVars, pullVars, unitVars >>

\* The predecessor's shell runs the next command of the k-th background job.
RemoteJob(k) ==
  /\ k \in DOMAIN remoteJobs
  /\ remoteJobs[k].next # "done"
  /\ \E ok \in BOOLEAN :
       remoteJobs' = [remoteJobs EXCEPT ![k] = jobStep(@, ok)]
  /\ UNCHANGED << spc, services, sshCommands, dispatch, stopLog, stopRet >>
  /\ UNCHANGED << orchVars, effectVars, detVars, pullVars, unitVars >>

\* The jobs were started with `&`: any of them can run next.
RemoteJobs == \E k \in 1..MaxServices : RemoteJob(k)

NextStop == StopCall \/ StopDispatched \/ StopWaited \/ RemoteJobs

\* One call of the stop of the predecessor's services.
SpecStop == InitStopOnly /\ [][NextStop]_vars

\* --------------------------------------------- checkRunnerData on its own
\* The remote commands getRemoteMetadata issues: cat as runner, and as root
\* when that gave nothing.
metadataCommands(env) ==
  << "cat metadata as runner" >>
  \o (IF Blank(env.metaRunner) THEN << "cat metadata as root" >> ELSE << >>)

\* The remote commands getRunnerWorkDir issues: one test per conventional
\* path, up to the first that exists.
workDirCommands(env) ==
  LET hits == { k \in DOMAIN possiblePaths : possiblePaths[k] \in env.existingDirs }
      last == IF hits = {} THEN Len(possiblePaths)
              ELSE CHOOSE k \in hits : \A j \in hits : k <= j
  IN  [k \in 1..last |-> "test work dir"]

\* The remote commands of one checkRunnerData call, in order.
checkRunnerDataCommands(env) ==
  LET metadata == getRemoteMetadata(env)
  IN  metadataCommands(env) \o
      (IF metadata.present /\ metadata.runnerDataDir # ""
         THEN << "test metadata dir" >>
         ELSE workDirCommands(env) \o
              (IF getRunnerWorkDir(env) = "" THEN << >> ELSE << "find .runner-data" >>))

\* The orchestrator's variables when a function is called outside a run.
Standalone ==
  /\ config = [ tailscaleEnable |-> TRUE, gitEnabled |-> FALSE,
                tailscaleClientId |-> "client-id",
                tailscaleClientSecret |-> "client-secret",
                tailscaleTags |-> << Tag(TRUE, "ci") >> ]
  /\ planSteps = << >>
  /\ opc = "standalone"
  /\ stepIdx = 0
  /\ inProgress = {}
  /\ started = << >>
  /\ results = NoResults
  /\ thrown = NoError
  /\ error = NoError
  /\ report = Unset
  /\ errorLog = << >>
  /\ InitEffects
  /\ InitDetect
  /\ InitPull
  /\ localFiles = {}
  /\ remote = UnknownRemote
  /\ InitStop
  /\ cliExit = NoExit

InitCheckOnly ==
  /\ Standalone
  /\ sudoEnv = NoSudoCall
  /\ sudoRun = NoSudoRun
  /\ connEnv = NoCaptureRun
  /\ connRun = NoConnRun
  /\ checkEnv \in RemoteEnvs
  /\ checkRun = NoCheckRun
  /\ op = NoOp
  /\ opLog = << >>

\* checkRunnerData(targetHost, { logger, sshPath }) runs against checkEnv;
\* its first statement is the call of getRemoteMetadata, whose outcome is
\* kept with the result.
CheckRunnerData ==
  /\ opc = "standalone"
  /\ ~checkRun.done
  /\ checkEnv \in RemoteEnvs
  /\ checkRun' = [ done     |-> TRUE,
                   hasData  |-> checkRunnerData(checkEnv),
                   commands |-> checkRunnerDataCommands(checkEnv),
                   metadata |-> metadataOutcome(checkEnv).metadata,
                   raised   |-> metadataOutcome(checkEnv).raised ]
  /\ UNCHANGED << checkEnv, opVars >>
  /\ UNCHANGED << orchVars, effectVars, detVars, pullVars, stopVars, cliVars,
                  connVars, sudoVars >>

NextCheck == CheckRunnerData

\* One call of checkRunnerData against one remote host.
SpecCheck == InitCheckOnly /\ [][NextCheck]_vars

\* ------------------------------------------------- one remote operation
\* The remote operations and the process helper each one goes through:
\* ssh.executeCommand and the two transfers use runWithTimeout,
\* ssh.executeCommandCapture and ssh.checkConnection use runCapture.
OpKinds == { "execute", "rsync", "scp", "capture", "probe" }

helperOf(kind) ==
  IF kind \in { "capture", "probe" } THEN "runCapture" ELSE "runWithTimeout"

\* Exit codes of the child process.
ExitCodes == { 0, 1, 255 }

InitOpOnly ==
  /\ Standalone
  /\ sudoEnv = NoSudoCall
  /\ sudoRun = NoSudoRun
  /\ connEnv = NoCaptureRun
  /\ connRun = NoConnRun
  /\ checkEnv = NoEnv
  /\ checkRun = NoCheckRun
  /\ op = NoOp
  /\ opLog = << >>

\* The operation is issued.  runWithTimeout spawns the child in its own
\* process group and arms setTimeout(timeoutMs); runCapture calls execSync
\* with stdio, encoding and cwd only.
OpStart ==
  /\ opc = "standalone"
  /\ op = NoOp
  /\ Len(opLog) < MaxOps
  /\ \E kind \in OpKinds :
       op' = [ kind    |-> kind,
               via     |-> helperOf(kind),
               timer   |-> IF helperOf(kind) = "runWithTimeout" THEN "armed" ELSE "none",
               child   |-> "running",
               kill    |-> "none",
               settled |-> "pending",
               reason  |-> "",
               history |-> << >> ]
  /\ UNCHANGED << opLog, checkVars >>
  /\ UNCHANGED << orchVars, effectVars, detVars, pullVars, stopVars, cliVars,
                  connVars, sudoVars >>

\* A promise on which the last call of resolve or reject wins.
settle_lastWins(o, outcome, reason) ==
  [o EXCEPT !.settled = outcome, !.reason = reason,
            !.history = Append(@, outcome)]

\* resolve and reject of `new Promise((resolve, reject) => ...)`: the first
\* call settles the promise, every later call is ignored.  history lists
\* the outcomes the promise has had.
settle(o, outcome, reason) ==
  IF o.settled = "pending"
    THEN [o EXCEPT !.settled = outcome, !.reason = reason,
                   !.history = Append(@, outcome)]
    ELSE o

\* runWithTimeout, child.on("close"): clearTimeout, resolve on code 0 and
\* reject otherwise.  The event also follows a spawn error and a kill, with
\* a code that is not 0.
OpClose ==
  /\ op.via = "runWithTimeout"
  /\ op.child \in { "running", "killed", "failed" }
  /\ \E code \in IF op.child = "running" THEN ExitCodes ELSE ExitCodes \ { 0 } :
       op' = settle([op EXCEPT !.child = "closed",
                               !.timer = IF @ = "armed" THEN "cleared" ELSE @],
                    IF code = 0 THEN "resolved" ELSE "rejected",
                    IF code = 0 THEN "" ELSE "Command failed with code")
  /\ UNCHANGED << opLog, checkVars >>
  /\ UNCHANGED << orchVars, effectVars, detVars, pullVars, stopVars, cliVars,
                  connVars, sudoVars >>

\* runWithTimeout, child.on("error"): clearTimeout and reject.
OpSpawnError ==
  /\ op.via = "runWithTimeout"
  /\ op.child = "running"
  /\ op.settled = "pending"
  /\ op' = settle([op EXCEPT !.child = "failed", !.timer = "cleared"],
                   "rejected", "spawn error")
  /\ UNCHANGED << opLog, checkVars >>
  /\ UNCHANGED << orchVars, effectVars, detVars, pullVars, stopVars, cliVars,
                  connVars, sudoVars >>

\* runWithTimeout, the timer callback: SIGKILL to the process group (which
\* can itself fail and is then only logged), then reject.
OpTimeout ==
  /\ op.timer = "armed"
  /\ \E killed \in BOOLEAN :
       op' = settle([op EXCEPT !.timer = "fired",
                                !.kill = IF killed THEN "group killed"
                                                   ELSE "kill failed",
                                !.child = IF killed THEN "killed" ELSE @],
                    "rejected", "Command timeout")
  /\ UNCHANGED << opLog, checkVars >>
  /\ UNCHANGED << orchVars, effectVars, detVars, pullVars, stopVars, cliVars,
                  connVars, sudoVars >>

\* runCapture: execSync returns the output or throws, and runCapture returns
\* the trimmed text or null.  Nothing else ends the call.
OpCaptureReturn ==
  /\ op.via = "runCapture"
  /\ op.child = "running"
  /\ \E code \in ExitCodes :
       op' = [op EXCEPT !.child = "closed",
                        !.settled = IF code = 0 THEN "returned text" ELSE "returned null"]
  /\ UNCHANGED << opLog, checkVars >>
  /\ UNCHANGED << orchVars, effectVars, detVars, pullVars, stopVars, cliVars,
                  connVars, sudoVars >>

\* The caller goes on after the operation has settled.
OpDone ==
  /\ op # NoOp
  /\ op.settled # "pending"
  /\ opLog' = Append(opLog, op)
  /\ op' = NoOp
  /\ UNCHANGED checkVars
  /\ UNCHANGED << orchVars, effectVars, detVars, pullVars, stopVars, cliVars,
                  connVars, sudoVars >>

NextOp == OpStart \/ OpClose \/ OpSpawnError \/ OpTimeout \/ OpCaptureReturn \/ OpDone

\* Remote operations issued one after another.
SpecOp == InitOpOnly /\ [][NextOp]_vars

\* --------------------------------------------- checkConnection called alone
\* ssh.executeCommandCapture and ssh.checkConnection called on a host whose
\* answer to `echo OK` is connEnv.
InitConnOnly ==
  /\ Standalone
  /\ sudoEnv = NoSudoCall
  /\ sudoRun = NoSudoRun
  /\ checkEnv = NoEnv
  /\ checkRun = NoCheckRun
  /\ op = NoOp
  /\ opLog = << >>
  /\ connEnv \in CaptureRuns
  /\ connRun = NoConnRun

\* executeCommandCapture(host, "echo OK", { sshPath })
ExecuteCommandCapture ==
  /\ connRun.fn = "none"
  /\ connRun' = [ fn |-> "executeCommandCapture",
                  capture |-> executeCommandCapture(connEnv).value,
                  raised |-> executeCommandCapture(connEnv).raised,
                  result |-> FALSE ]
  /\ UNCHANGED << connEnv, checkVars, opVars, cliVars, sudoVars >>
  /\ UNCHANGED << orchVars, effectVars, detVars, pullVars, stopVars >>

\* checkConnection(host, { logger, sshPath })
CheckConnection ==
  /\ connRun.fn = "none"
  /\ connRun' = [ fn |-> "checkConnection",
                  capture |-> executeCommandCapture(connEnv).value,
                  raised |-> checkConnectionCall(connEnv).raised,
                  result |-> checkConnectionCall(connEnv).value ]
  /\ UNCHANGED << connEnv, checkVars, opVars, cliVars, sudoVars >>
  /\ UNCHANGED << orchVars, effectVars, detVars, pullVars, stopVars >>

NextConn == ExecuteCommandCapture \/ CheckConnection

\* One call of either function per host.
SpecConn == InitConnOnly /\ [][NextConn]_vars

\* ------------------------------- executeCommandWithSudoFallback called alone
InitSudoOnly ==
  /\ Standalone
  /\ checkEnv = NoEnv
  /\ checkRun = NoCheckRun
  /\ op = NoOp
  /\ opLog = << >>
  /\ connEnv = NoCaptureRun
  /\ connRun = NoConnRun
  /\ sudoEnv \in SudoCalls
  /\ sudoRun = NoSudoRun

SudoFrame ==
  /\ UNCHANGED << sudoEnv, checkVars, opVars, cliVars, connVars >>
  /\ UNCHANGED << orchVars, effectVars, detVars, pullVars, stopVars >>

\* executeCommandWithSudoFallback(host, command, options): the try block
\* awaits executeCommand(host, command).
SudoCall ==
  /\ sudoRun.pc = "idle"
  /\ sudoRun' = [sudoRun EXCEPT !.pc = "plain", !.ran = << sudoEnv.command >>]
  /\ SudoFrame

\* The first executeCommand settles: its value is returned, or the catch
\* block runs: a command that does not start with sudo is run again under
\* sudo, any other has its error thrown.
SudoPlainSettled ==
  /\ sudoRun.pc = "plain"
  /\ sudoRun' =
       IF sudoEnv.plain = "resolved"
         THEN [sudoRun EXCEPT !.pc = "done", !.settled = "resolved"]
       ELSE IF ~startsWithSudo(sudoEnv.command)
         THEN [sudoRun EXCEPT !.pc = "sudo",
                              !.ran = Append(@, withSudo(sudoEnv.command))]
       ELSE [sudoRun EXCEPT !.pc = "done", !.settled = "rejected",
                            !.error = [attempt |-> 1, message |-> sudoEnv.plain]]
  /\ SudoFrame

\* The executeCommand under sudo settles: its value is returned or its
\* error is thrown.
SudoElevatedSettled ==
  /\ sudoRun.pc = "sudo"
  /\ sudoRun' =
       IF sudoEnv.sudo = "resolved"
         THEN [sudoRun EXCEPT !.pc = "done", !.settled = "resolved"]
         ELSE [sudoRun EXCEPT !.pc = "done", !.settled = "rejected",
                              !.error = [attempt |-> 2, message |-> sudoEnv.sudo]]
  /\ SudoFrame

NextSudo == SudoCall \/ SudoPlainSettled \/ SudoElevatedSettled

\* One call of executeCommandWithSudoFallback.
SpecSudo == InitSudoOnly /\ [][NextSudo]_vars

\* ------------------------------------------------------- checked properties
\* detectPreviousRunner has computed its return value and it names a peer.
DetectFound == dpc = "done" /\ detResult.found

\* The peers of the current detection that passed both checks, by position
\* in accessiblePeers.
Confirmed == { k \in DOMAIN accessiblePeers : accessiblePeers[k].hasData }

\* C1: whenever detectPreviousRunner returns a peer, that peer is one of the
\* candidates of this detection, it answered the SSH probe with OK
\* (accessible) and the data check found data on it (hasData); the result
\* the orchestrator stores has the same two flags.
C1_ReturnedPeerPassedBothChecks ==
  /\ DetectFound =>
       /\ \E k \in DOMAIN accessiblePeers : accessiblePeers[k] = detResult.peer
       /\ \E k \in DOMAIN matchingPeers :
            /\ matchingPeers[k].id = detResult.peer.id
            /\ matchingPeers[k].accessible
       /\ << detResult.peer.id, "OK" >> \in probeLog
       /\ detResult.peer.accessible
       /\ detResult.peer.hasData
  /\ ~noPreviousRunner(results) =>
       /\ results.detection.previousRunner.accessible
       /\ results.detection.previousRunner.hasData

\* A detection with two candidates returns one of them; the other failed
\* the SSH probe.
C1_Witness ==
  /\ DetectFound
  /\ \E k \in DOMAIN matchingPeers : ~matchingPeers[k].accessible
  /\ Len(matchingPeers) >= 2

\* The two address lists have an address in common.
SharesAddress(ips, selfIPs) ==
  \E a \in DOMAIN ips, b \in DOMAIN selfIPs : ips[a] = selfIPs[b]

\* C2: no candidate of a detection, and so no peer it returns or the
\* orchestrator stores, has an address in common with Self.TailscaleIPs of
\* the snapshot, whatever the peer's key.
C2_PredecessorSharesNoSelfAddress ==
  /\ \A k \in DOMAIN matchingPeers :
       ~SharesAddress(matchingPeers[k].ips, status.Self)
  /\ DetectFound => ~SharesAddress(detResult.peer.ips, status.Self)
  /\ ~noPreviousRunner(results) =>
       ~SharesAddress(results.detection.previousRunner.ips, SelfIPs)

\* A detection returns a peer from a snapshot that also lists an online peer
\* with a matching tag, a key of its own and one of the local addresses.
C2_Witness ==
  /\ DetectFound
  /\ \E k \in DOMAIN status.Peer :
       /\ SharesAddress(status.Peer[k].TailscaleIPs, status.Self)
       /\ status.Peer[k].TailscaleIPs # status.Self
       /\ status.Peer[k].Online
       /\ hasSameTag(parseTags(config.tailscaleTags), status.Peer[k])

\* C3: the peer a detection returns is a confirmed peer whose Created time
\* no confirmed peer exceeds, and among the confirmed peers with that same
\* time it is the first in iteration order.
C3_MostRecentCreatedFirstOnTies ==
  DetectFound =>
    \E k \in Confirmed :
      /\ accessiblePeers[k] = detResult.peer
      /\ \A j \in Confirmed :
           /\ createdTime(accessiblePeers[j]) <= createdTime(accessiblePeers[k])
           /\ createdTime(accessiblePeers[j]) = createdTime(accessiblePeers[k])
                => k <= j

\* Two confirmed peers, the one registered later second in iteration order
\* and last seen earlier: the detection returns the second.
C3_Witness ==
  /\ DetectFound
  /\ Confirmed = { 1, 2 }
  /\ createdTime(accessiblePeers[1]) < createdTime(accessiblePeers[2])
  /\ lastSeenTime(accessiblePeers[1]) > lastSeenTime(accessiblePeers[2])
  /\ detResult.peer = accessiblePeers[2]

\* orchestrate is called with overlay participation enabled, credentials
\* that pass validation and the tag spelled with its prefix.
InitOverlay ==
  /\ Init
  /\ config.tailscaleEnable
  /\ ConfigValidate(config) = << >>
  /\ config.tailscaleTags = << Tag(TRUE, "ci") >>

\* One such run in which every pending step is eventually taken: each await
\* settles (every remote command carries a timeout) and the event loop then
\* resumes the stage.
FairSpec == InitOverlay /\ [][Next]_vars /\ WF_vars(Next)

\* The detection stage has completed and named no predecessor.
NoPredecessorFound ==
  IF results.detection.set THEN results.detection.previousRunner = NullPeer
                           ELSE FALSE

\* The detection stage has completed and named a predecessor.
PredecessorFound ==
  IF results.detection.set THEN results.detection.previousRunner # NullPeer
                           ELSE FALSE

\* No pullData call, no stopRemoteServices call, no git.commitAndPush call.
NoHandoffCall == pullLog = << >> /\ stopTargets = << >> /\ gitCalls = 0

Range(seq) == { seq[k] : k \in DOMAIN seq }

\* C4 as stated: once detection has found no predecessor there is never a
\* pull, stop or git call and the run does not fail, and when it has
\* reported, the report is a success in which pull_data,
\* stop_remote_services and push_to_git each recorded a skipped result.
C4_Original ==
  /\ NoPredecessorFound => NoHandoffCall /\ opc # "failed"
  /\ NoPredecessorFound /\ opc = "reported" =>
       /\ report.success
       /\ results.pullData = Skipped
       /\ results.stopServices = Skipped
       /\ results.pushGit = Skipped

\* C4 (amended): once detection has found no predecessor there is never a
\* pull, stop or git call and no stage raises; pull_data and
\* stop_remote_services record a skipped result, push_to_git records one
\* when gitEnabled and is not run at all (records nothing) otherwise; the
\* run ends in a report of success.
C4_NoPredecessorSkipsEnabledStages ==
  /\ [](NoPredecessorFound =>
          /\ NoHandoffCall
          /\ thrown = NoError
          /\ opc # "failed"
          /\ results.pullData \in { Unset, Skipped }
          /\ results.stopServices \in { Unset, Skipped }
          /\ results.pushGit \in { Unset, Skipped }
          /\ ~config.gitEnabled => "push_to_git" \notin Range(started))
  /\ NoPredecessorFound ~>
       ( /\ opc = "reported"
         /\ report.success
         /\ results.pullData = Skipped
         /\ results.stopServices = Skipped
         /\ results.pushGit = IF config.gitEnabled THEN Skipped ELSE Unset )

\* A reported run without predecessor and with publishing enabled: all
\* three stages recorded a skipped result.
C4_Witness ==
  /\ NoPredecessorFound
  /\ opc = "reported"
  /\ config.gitEnabled
  /\ results.pushGit = Skipped
  /\ results.pullData = Skipped

\* The six stages in their fixed order, and the key of results each writes.
StageOrder ==
  << "setup_directories", "connect_tailscale", "detect_previous_runner",
     "pull_data", "stop_remote_services", "push_to_git" >>

StageKeys ==
  << "setupDirs", "tailscale", "detection", "pullData", "stopServices", "pushGit" >>

StagePos(name) == CHOOSE k \in DOMAIN StageOrder : StageOrder[k] = name

StageEnabled(name) ==
  IF name = "setup_directories" THEN TRUE
  ELSE IF name = "push_to_git" THEN config.gitEnabled
  ELSE config.tailscaleEnable

\* C5: the stages start in the fixed order, each at most once and only when
\* enabled; when a stage starts every stage started before it has completed
\* (its result is recorded), so at most one stage is in progress, and it is
\* the one started last; a run that reports has started every enabled stage.
C5_StagesStartInOrderOneAtATime ==
  /\ \A i, j \in DOMAIN started :
       i < j => StagePos(started[i]) < StagePos(started[j])
  /\ \A i \in DOMAIN started :
       /\ started[i] \in Range(StageOrder)
       /\ StageEnabled(started[i])
       /\ i < Len(started) => results[StageKeys[StagePos(started[i])]].set
       /\ i = Len(started) /\ results[StageKeys[StagePos(started[i])]].set
            => inProgress = {}
  /\ Cardinality(inProgress) <= 1
  /\ inProgress # {} => inProgress = { started[Len(started)] }
  /\ opc = "reported" =>
       Range(started) = { n \in Range(StageOrder) : StageEnabled(n) }

\* A run that started all six stages and reported.
C5_Witness ==
  /\ opc = "reported"
  /\ started = StageOrder
  /\ PredecessorFound

\* C6: while a stage's error is pending and after orchestrate has rejected
\* with it, no stage starts, the error does not change, no report is
\* produced, and results, the local files and every effect of the completed
\* stages stay as they are; orchestrate rejects with that very error, after
\* it has been logged with the name of the failed stage, which is the stage
\* started last.
C6_StageErrorAbortsAndPropagates ==
  /\ [](thrown # NoError =>
          /\ report = Unset
          /\ started # << >>
          /\ started[Len(started)] = planSteps[stepIdx].name
          /\ opc \in { "execute", "failed" }
          /\ opc = "failed" =>
               /\ error = thrown
               /\ errorLog = << [step |-> started[Len(started)],
                                 message |-> thrown.message] >>)
  /\ [][thrown # NoError =>
          /\ thrown' = thrown
          /\ started' = started
          /\ results' = results
          /\ report' = Unset
          /\ effectVars' = effectVars
          /\ localFiles' = localFiles
          /\ opc' = "failed"]_vars

\* orchestrate has rejected with the SyncError of pull_data after setup,
\* join and detection completed: their effects are in place and neither
\* stop_remote_services nor push_to_git started.
C6_Witness ==
  /\ opc = "failed"
  /\ error.class = "SyncError"
  /\ dirsCreated
  /\ joined
  /\ localFiles # {}
  /\ started[Len(started)] = "pull_data"
  /\ config.gitEnabled

\* Detection found a predecessor while gitEnabled is false.
FoundWithoutPublishing == PredecessorFound /\ ~config.gitEnabled

\* C7 as stated: with a predecessor found and gitEnabled false, git is
\* never invoked, and when the run is over pull_data and
\* stop_remote_services have both completed.
C7_Original ==
  /\ FoundWithoutPublishing => gitCalls = 0
  /\ FoundWithoutPublishing /\ opc \in { "reported", "failed" } =>
       results.pullData.set /\ results.stopServices.set

\* C7 (amended): with a predecessor found and gitEnabled false, git is never
\* invoked and push_to_git never starts; pullData is called for that
\* predecessor, and either it returns, then stopRemoteServices is called
\* for the same predecessor and completes and the run reports success, or
\* it raises, then the run fails with that error and stop_remote_services
\* never starts; nothing fails once pullData has returned.
C7_FoundWithoutPublishing ==
  /\ [](FoundWithoutPublishing =>
          /\ gitCalls = 0
          /\ "push_to_git" \notin Range(started)
          /\ results.pushGit = Unset
          /\ results.stopServices.set => results.pullData.set
          /\ results.pullData.set => thrown = NoError /\ opc # "failed"
          /\ thrown # NoError => "stop_remote_services" \notin Range(started))
  /\ FoundWithoutPublishing ~>
       \/ /\ opc = "reported"
          /\ results.pullData.set
          /\ results.pullData # Skipped
          /\ results.stopServices.set
          /\ results.stopServices # Skipped
          /\ stopTargets = << results.detection.previousRunner.id >>
          /\ Len(pullLog) = 1
       \/ /\ opc = "failed"
          /\ error.class = "SyncError"
          /\ "pull_data" \in Range(started)
          /\ "stop_remote_services" \notin Range(started)
          /\ stopTargets = << >>

\* A reported run with a predecessor and gitEnabled false in which pullData
\* moved bytes and stopRemoteServices was called.
C7_Witness ==
  /\ FoundWithoutPublishing
  /\ opc = "reported"
  /\ results.stopServices.set
  /\ Len(pullLog) = 1
  /\ pullLog[1].moved > 0

\* The pullData calls that are over, by position in pullLog.
FinishedPulls == { k \in DOMAIN pullLog : pullLog[k].state # "running" }

\* The predecessor's directory is missing or holds nothing.
MissingOrEmpty(rd) == ~rd.exists \/ rd.files = {}

\* C8 as stated: every pullData call against a predecessor whose directory
\* is missing or empty returns success with a count of zero and does not
\* raise.
C8_Original ==
  \A k \in FinishedPulls :
    MissingOrEmpty(pullLog[k].remote) =>
      /\ pullLog[k].state = "returned"
      /\ pullLog[k].syncedSize = 0

\* A pullData call against an existing empty directory raised SyncError
\* after rsync and scp both failed, with nothing transferred.
C8_RaisedOnEmpty ==
  \E k \in FinishedPulls :
    /\ pullLog[k].remote = [exists |-> TRUE, files |-> {}]
    /\ pullLog[k].before = {}
    /\ pullLog[k].state = "raised"
    /\ pullLog[k].attempts = << "rsync", "scp" >>
    /\ pullErr.class = "SyncError"

SecondPull(k) ==
  /\ k > 1
  /\ k \in FinishedPulls
  /\ pullLog[k - 1].state = "returned"
  /\ pullLog[k].remote = pullLog[k - 1].remote
  /\ pullLog[k].remote.exists
  /\ pullLog[k].before = pullLog[k].remote.files

C11_BothTransportsFailRaisesSyncError ==
  \A k \in FinishedPulls :
    pullLog[k].attempts = << "rsync", "scp" >> /\ pullLog[k].via # "scp" =>
      /\ pullLog[k].state = "raised"
      /\ pullLog[k].errMsg \in ScpErrMessages
      /\ pullLog[k].errMsg \notin ErrMessages
      /\ k = Len(pullLog) =>
           /\ pullErr.class = "SyncError"
           /\ pullErr.message = "Failed to sync data: " \o pullLog[k].errMsg
           /\ pullRet = NoExecResult

\* rsync failed, scp failed on a timeout against a directory that holds
\* files, and the call is raising SyncError.
C11_Witness ==
  /\ ppc = "raised"
  /\ LastPull.attempts = << "rsync", "scp" >>
  /\ LastPull.remote.files # {}
  /\ pullErr.message = "Failed to sync data: Command timeout after 300000ms: scp"

\* The last pullData call has returned; localFiles is what it left.
LastPullReturned == pullLog # << >> /\ LastPull.state = "returned"

StopFinished == spc = "returned"

\* The executeCommand call of stopServices was rejected.
DispatchFailed ==
  dispatch.kind \in { "timeout", "error" } \/ (dispatch.kind = "close" /\ dispatch.code # "0")

LastStopLine == stopLog[Len(stopLog)]

\* C13: stopServices never raises: whenever the remote command fails
\* (non-zero exit, time-out, lost connection, unreachable host, ssh that
\* cannot be started) the call writes a log line for the failure and returns
\* normally, handing a result to its caller.
C13_StopNeverRaises ==
  StopFinished =>
    /\ stopRet.set
    /\ ~stopRet.raised
    /\ DispatchFailed =>
         /\ Len(stopLog) = 2
         /\ LastStopLine.level \in { "warn", "success" }
         /\ stopRet.success

\* The host was unreachable (ssh exited 255 before the command got there)
\* and the call has returned normally after logging.
C13_Witness ==
  /\ StopFinished
  /\ dispatch = [kind |-> "close", code |-> "255", delivered |-> FALSE]
  /\ ~stopRet.raised
  /\ LastStopLine = LogLine("warn", "Failed to stop services")

OrderedAttempts ==
  { << >>,
    << << "systemctl", TRUE >> >>,
    << << "systemctl", FALSE >> >>,
    << << "systemctl", FALSE >>, << "pkill", TRUE >> >>,
    << << "systemctl", FALSE >>, << "pkill", FALSE >> >> }

BothFailed(job) == job.attempts = << << "systemctl", FALSE >>, << "pkill", FALSE >> >>

LostAfterDispatch ==
  /\ dispatch.delivered
  /\ \/ dispatch.kind = "timeout"
     \/ dispatch.kind = "close" /\ dispatch.code = "255"

\* C16: when the stop command was dispatched and the connection was then
\* lost or the foreground wait timed out, stopServices logs success and does
\* not raise; every other failure is logged as a failed stop.
C16_Original ==
  StopFinished /\ DispatchFailed =>
    /\ ~stopRet.raised
    /\ LostAfterDispatch => LastStopLine.level = "success"
    /\ ~LostAfterDispatch => LastStopLine = LogLine("warn", "Failed to stop services")

\* The command was delivered, the foreground wait timed out, and the call
\* logged a failed stop.
C16_TimeoutLoggedAsFailure ==
  /\ StopFinished
  /\ dispatch = [kind |-> "timeout", code |-> "", delivered |-> TRUE]
  /\ remoteJobs # << >>
  /\ LastStopLine = LogLine("warn", "Failed to stop services")

\* The SSH probe of this candidate did not answer OK, or the candidate has
\* no address to probe.
ProbeFailed(peer) ==
  \/ peer.ips = << >>
  \/ \E reply \in Replies \ { "OK" } : << peer.id, reply >> \in probeLog

\* The probe loop of the detection in progress is over.
ProbesOver == dpc \in { "check", "done" } /\ matchingPeers # << >>

\* C17: nothing the discovery meets on the network makes detection raise:
\* while a detection is in progress no error has been raised, whatever the
\* probes, the captures and the metadata reads gave; a candidate whose probe
\* failed is not among the accessible peers and is not returned; when the
\* only candidate's probe failed the detection returns "not found"; and the
\* result the orchestrator stores always has success = true.
C17_DiscoveryFailuresAbsorbed ==
  /\ dpc # "idle" => thrown = NoError /\ error = NoError /\ opc = "execute"
  /\ ProbesOver =>
       \A k \in DOMAIN matchingPeers :
         ProbeFailed(matchingPeers[k]) =>
           /\ \A j \in DOMAIN accessiblePeers :
                accessiblePeers[j].id # matchingPeers[k].id
           /\ DetectFound => detResult.peer.id # matchingPeers[k].id
  /\ dpc = "done" /\ Len(matchingPeers) = 1 /\ ProbeFailed(matchingPeers[1]) =>
       detResult = NotFound
  /\ IF results.detection.set
       THEN /\ results.detection.success
            /\ results.detection.previousRunner = NullPeer
                 \/ results.detection.previousRunner.accessible
       ELSE TRUE

\* The only matching online peer answered the probe with an error text and
\* the detection has returned "not found" without raising.
C17_Witness ==
  /\ dpc = "done"
  /\ Len(matchingPeers) = 1
  /\ probeLog = { << matchingPeers[1].id, "Permission denied" >> }
  /\ detResult = NotFound
  /\ thrown = NoError

\* The tag names a filter value can carry.
FilterNames == { "ci", "other" }

\* The ids of the peers the filter loop keeps, in order.
KeptIds(snapshot, tags) ==
  LET kept == matchingPeersOf(snapshot, tags)
  IN  [k \in DOMAIN kept |-> kept[k].id]

\* C18: a filter value spelled with the "tag:" prefix and the same value
\* spelled without it accept the same peers: the tag test gives the same
\* answer for every peer of the snapshot, the filter loop keeps the same
\* peers in the same order, and the candidates of the detection in progress
\* are those peers under either spelling of the configured value.
C18_FilterSpellingsSelectSamePeers ==
  dpc # "idle" =>
    /\ \A n \in FilterNames :
         /\ \A k \in DOMAIN status.Peer :
              hasSameTag(<< Tag(TRUE, n) >>, status.Peer[k])
                <=> hasSameTag(<< Tag(FALSE, n) >>, status.Peer[k])
         /\ KeptIds(status, << Tag(TRUE, n) >>) = KeptIds(status, << Tag(FALSE, n) >>)
    /\ \A t \in { Tag(TRUE, "ci"), Tag(FALSE, "ci") } :
         [k \in DOMAIN matchingPeers |-> matchingPeers[k].id] = KeptIds(status, << t >>)

\* The filter is configured as `ci`, the snapshot lists a peer tagged
\* `tag:ci` and one tagged otherwise, and the first is a candidate.
C18_Witness ==
  /\ dpc = "probe"
  /\ config.tailscaleTags = << Tag(FALSE, "ci") >>
  /\ Len(status.Peer) = 2
  /\ status.Peer[1].Tags = { Tag(TRUE, "other") }
  /\ status.Peer[2].Tags = { Tag(TRUE, "ci") }
  /\ Len(matchingPeers) = 1
  /\ matchingPeers[1].id = status.Peer[2].ID

\* The entry of the snapshot at position k is not this node, carries a
\* configured tag, is online, answered the probe with OK and the data check
\* found data on it.
Eligible(k) ==
  LET p == status.Peer[k] IN
    /\ ~isSelf(status.Self, p)
    /\ hasSameTag(parseTags(config.tailscaleTags), p)
    /\ p.Online
    /\ << p.ID, "OK" >> \in probeLog
    /\ \E j \in Confirmed : accessiblePeers[j].id = p.ID

\* C19: when the detection has finished and the snapshot holds at least one
\* eligible peer, the detection returns a peer, and that peer is one of the
\* eligible ones.
C19_EligiblePeerIsSelected ==
  dpc = "done" /\ (\E k \in DOMAIN status.Peer : Eligible(k)) =>
    /\ detResult.found
    /\ \E k \in DOMAIN status.Peer :
         Eligible(k) /\ detResult.peer.id = status.Peer[k].ID

\* Peer A has another tag, peer B is eligible and was registered after A:
\* the detection returns B.
C19_Witness ==
  /\ dpc = "done"
  /\ Len(status.Peer) = 2
  /\ ~hasSameTag(parseTags(config.tailscaleTags), status.Peer[1])
  /\ Eligible(2)
  /\ DateParse(status.Peer[2].Created) > DateParse(status.Peer[1].Created)
  /\ detResult.found
  /\ detResult.peer.id = status.Peer[2].ID

\* The orders in which n checks can complete.
CompletionOrders(n) ==
  { f \in [1..n -> 1..n] : \A i, j \in 1..n : i # j => f[i] # f[j] }

\* The candidates as the filter loop pushed them, before any check.
Unchecked(list) ==
  [k \in DOMAIN list |->
     [list[k] EXCEPT !.accessible = FALSE, !.hasData = FALSE, !.metadata = NoMetadata]]

RECURSIVE probesCompleteIn(_, _, _)
\* The probes of `outcomes` complete in the given order of positions.
probesCompleteIn(order, list, outcomes) ==
  IF order = << >> THEN list
  ELSE probesCompleteIn(Tail(order),
         markAccessible(list, outcomes[Head(order)].id, outcomes[Head(order)].accessible),
         outcomes)

RECURSIVE dataChecksCompleteIn(_, _, _)
\* The data checks of `outcomes` complete in the given order of positions.
dataChecksCompleteIn(order, list, outcomes) ==
  IF order = << >> THEN list
  ELSE dataChecksCompleteIn(Tail(order),
         markData(list, outcomes[Head(order)].id, outcomes[Head(order)]),
         outcomes)

StoredPeer ==
  IF results.detection.set THEN results.detection.previousRunner ELSE NullPeer

\* The pull stage and the stop stage act on the stored peer only.
LaterStagesUseStoredPeer ==
  /\ pullLog # << >> => pullPeer = StoredPeer /\ StoredPeer # NullPeer
  /\ Len(pullLog) <= 1
  /\ Len(stopTargets) <= 1
  /\ \A k \in DOMAIN stopTargets :
       StoredPeer # NullPeer /\ stopTargets[k] = StoredPeer.id

\* C21: in one run the detection result is stored at most once and never
\* changes afterwards, and the peer pull_data reads from and the peer
\* stop_remote_services stops are that stored peer; neither stage acts more
\* than once.
C21_OnePredecessorPerRun ==
  /\ [] LaterStagesUseStoredPeer
  /\ [][results.detection.set => results'.detection = results.detection]_vars

\* The pull has read from the stored peer and the stop stage has stopped it.
C21_Witness ==
  /\ StoredPeer # NullPeer
  /\ pullLog # << >>
  /\ pullPeer = StoredPeer
  /\ stopTargets = << StoredPeer.id >>

\* The metadata the call retrieved names a working-data path.
MetadataNamesPath ==
  getRemoteMetadata(checkEnv).present /\ getRemoteMetadata(checkEnv).runnerDataDir # ""

ProbingCommands == { "test work dir", "find .runner-data" }

\* C22: when the metadata read from the peer names a working-data path,
\* checkRunnerData answers from that path alone: it has data exactly when
\* the directory test at that path said yes, and no work-directory probe or
\* find is issued; when there is no metadata, or no path in it, the metadata
\* path is not tested and the answer is that of the probing.
C22_MetadataPathIsAuthoritative ==
  checkRun.done =>
    /\ MetadataNamesPath =>
         /\ checkRun.hasData <=> checkEnv.testDir = "yes"
         /\ Range(checkRun.commands) \cap ProbingCommands = {}
         /\ checkRun.commands[Len(checkRun.commands)] = "test metadata dir"
    /\ ~MetadataNamesPath =>
         /\ "test metadata dir" \notin Range(checkRun.commands)
         /\ checkRun.hasData <=>
              getRunnerWorkDir(checkEnv) # "" /\ checkEnv.findReply = "yes"
         /\ checkRun.hasData => "find .runner-data" \in Range(checkRun.commands)

\* The metadata names a path that does not exist while the conventional
\* work directory holds a .runner-data directory: the call says no data.
C22_Witness ==
  /\ checkRun.done
  /\ MetadataNamesPath
  /\ checkEnv.testDir = "null"
  /\ checkEnv.existingDirs # {}
  /\ checkEnv.findReply = "yes"
  /\ ~checkRun.hasData

\* C23 as stated: every remote operation that is waiting for its command
\* has a timeout armed, and an operation whose timeout fired has signalled
\* the command's process group and has ended in failure.
C23_Original ==
  /\ op.settled = "pending" => op.timer = "armed"
  /\ op.timer = "fired" => op.kill # "none" /\ op.settled = "rejected"
  /\ \A k \in DOMAIN opLog :
       opLog[k].timer = "fired" => opLog[k].settled = "rejected"

\* A capture is waiting for its ssh command and no timeout is armed: only
\* the command's own exit can end it.
C23_CaptureWaitsWithoutTimeout ==
  /\ op.kind = "capture"
  /\ op.settled = "pending"
  /\ op.child = "running"
  /\ op.timer = "none"
  /\ ~ENABLED OpTimeout

\* ------------------------------------------------------------------- C24
\* The attempts git.push made are all failures but possibly the last.
FailuresThenLast ==
  \A i \in 1..(Len(pushRun.attempts) - 1) : ~pushRun.attempts[i]

\* C24: only git.push retries, and boundedly: it makes between one and
\* GIT_RETRY_COUNT attempts, every attempt before the last one failed and
\* was followed by one sleep of GIT_RETRY_DELAY, it returns true exactly
\* when its last attempt succeeded, and it raises ProcessError exactly when
\* GIT_RETRY_COUNT attempts have failed; a detection probes each peer at most
\* once, and a pull tries rsync at most once and scp at most once after it.
C24_OnlyPushRetriesBounded ==
  /\ pushRun.called =>
       /\ Len(pushRun.attempts) \in 1..GIT_RETRY_COUNT
       /\ FailuresThenLast
       /\ pushRun.sleeps =
            [ i \in 1..(Len(pushRun.attempts) - 1) |-> GIT_RETRY_DELAY ]
       /\ pushRun.returned \in { "true", "ProcessError" }
       /\ pushRun.returned = "true" <=> pushRun.attempts[Len(pushRun.attempts)]
       /\ pushRun.returned = "ProcessError" <=>
            /\ Len(pushRun.attempts) = GIT_RETRY_COUNT
            /\ ~pushRun.attempts[GIT_RETRY_COUNT]
       /\ pushRun.returned = "ProcessError" =>
            \/ thrown.class = "ProcessError"
            \/ error.class = "ProcessError"
  /\ \A a, b \in probeLog : a[1] = b[1] => a = b
  /\ \A k \in DOMAIN pullLog :
       pullLog[k].attempts \in { << >>, << "rsync" >>, << "rsync", "scp" >> }

\* Two pushes failed, each followed by the delay, and the third succeeded.
C24_Witness ==
  /\ pushRun.attempts = << FALSE, FALSE, TRUE >>
  /\ pushRun.sleeps = << GIT_RETRY_DELAY, GIT_RETRY_DELAY >>
  /\ pushRun.returned = "true"
  /\ results.pushGit.set /\ results.pushGit.success

InvalidConfig ==
  /\ config.tailscaleEnable
  /\ config.tailscaleClientId = "" \/ config.tailscaleClientSecret = ""

\* No stage has begun and nothing outside the process has been touched.
NothingDone ==
  /\ started = << >>
  /\ planSteps = << >>
  /\ results = NoResults
  /\ ~dirsCreated /\ ~metadataWritten /\ ~joined
  /\ dpc = "idle" /\ status = NoStatus /\ probeLog = {}
  /\ ppc = "idle" /\ pullLog = << >>
  /\ spc = "idle" /\ sshCommands = << >> /\ stopTargets = << >>
  /\ gitCalls = 0 /\ ~pushRun.called

\* C26: with the overlay enabled and the client id or secret missing,
\* orchestrate rejects with ValidationError before any stage: no stage
\* starts, no directory is created, no metadata is written, the overlay is
\* not joined and no remote command or git command is issued.
C26_InvalidConfigFailsBeforeAnyEffect ==
  InvalidConfig =>
    /\ NothingDone
    /\ opc \in { "validate", "failed" }
    /\ opc = "failed" => error.class = "ValidationError" /\ report = Unset

\* Only the secret is missing and orchestrate has rejected.
C26_Witness ==
  /\ config.tailscaleEnable
  /\ config.tailscaleClientId # ""
  /\ config.tailscaleClientSecret = ""
  /\ opc = "failed"
  /\ error.class = "ValidationError"
  /\ NothingDone

\* ------------------------------------------------------------------- C27
\* execute has returned after getStatus gave null.
DirectoryUnavailable == dpc = "done" /\ status.output \in FailedOutputs

\* C27: when `tailscale status --json` fails, prints nothing or prints what
\* does not parse, the detection ends without a probe and without an error,
\* and what detectPreviousRunner returns has success = true and
\* previousRunner = null.
C27_UnqueryableDirectoryMeansNoPeers ==
  DirectoryUnavailable =>
    /\ probeLog = {}
    /\ matchingPeers = << >> /\ accessiblePeers = << >>
    /\ thrown = NoError /\ error = NoError
    /\ detResult = NotFound
    /\ DetectionReport(detResult).success
    /\ DetectionReport(detResult).previousRunner = NullPeer

\* The status output did not parse and the detection is about to return.
C27_Witness ==
  /\ dpc = "done"
  /\ status.output = "unparsable"
  /\ detResult = NotFound

\* ------------------------------------------------------------------- C28
\* The flag plan gives the step called name.
EnabledByConfig(name) ==
  CASE name = "setup_directories" -> TRUE
    [] name = "push_to_git" -> config.gitEnabled
    [] OTHER -> config.tailscaleEnable

\* C28: the plan is what plan(config) computes, every step's enabled flag
\* being fixed by the configuration alone; no step of a run changes the
\* configuration, and once computed the plan is not changed either, also
\* when the later stages are skipped for want of a predecessor.
C28_PlanAndConfigReadOnly ==
  /\ [](planSteps # << >> =>
          /\ planSteps = plan(config)
          /\ \A i \in DOMAIN planSteps :
               planSteps[i].enabled = EnabledByConfig(planSteps[i].name))
  /\ [][/\ config' = config
        /\ planSteps # << >> => planSteps' = planSteps]_vars

\* Publishing is enabled, no predecessor was found, the three later stages
\* were skipped, and the plan still lists push_to_git as enabled.
C28_Witness ==
  /\ opc = "reported"
  /\ config.gitEnabled /\ config.tailscaleEnable
  /\ results.pullData = Skipped
  /\ results.stopServices = Skipped
  /\ results.pushGit = Skipped
  /\ planSteps[6] = Step("push_to_git", TRUE)

\* ------------------------------------------------------------------- C29
\* The key of the results map the stage called name writes.
ResultKey(name) ==
  CASE name = "setup_directories" -> "setupDirs"
    [] name = "connect_tailscale" -> "tailscale"
    [] name = "detect_previous_runner" -> "detection"
    [] name = "pull_data" -> "pullData"
    [] name = "stop_remote_services" -> "stopServices"
    [] name = "push_to_git" -> "pushGit"

\* The stages that have completed: enabled and passed by the loop.
CompletedStages ==
  { planSteps[i].name : i \in { j \in DOMAIN planSteps :
                                  planSteps[j].enabled /\ j < stepIdx } }

\* The step writes the result of the one stage that ends in it, and no other.
WritesOnlyOnCompletion ==
  \A k \in DOMAIN NoResults :
    results'[k] # results[k] =>
      /\ ~results[k].set
      /\ results'[k].set
      /\ \E name \in inProgress : ResultKey(name) = k /\ name \notin inProgress'
      /\ \A j \in DOMAIN NoResults \ { k } : results'[j] = results[j]

\* C29: the results map holds a result for exactly the stages that have
\* completed; a result is written by the step in which its stage completes,
\* alone, and a result once written is never changed by a later step.
C29_StageResultWrittenOnce ==
  /\ [](\A k \in DOMAIN NoResults :
          results[k].set <=> \E name \in CompletedStages : ResultKey(name) = k)
  /\ [][WritesOnlyOnCompletion]_vars
  /\ [][\A k \in DOMAIN NoResults :
          results[k].set => results'[k] = results[k]]_vars

\* A run with a predecessor has completed all six stages.
C29_Witness ==
  /\ opc = "reported"
  /\ \A k \in DOMAIN NoResults : results[k].set
  /\ results.detection.previousRunner # NullPeer
  /\ results.pullData # Skipped
  /\ results.pushGit # Skipped

\* ------------------------------------------------------------------- C30
\* The output is "OK" with nothing but whitespace before and after it.
PrintsOK ==
  \E i \in 1..(Len(connEnv.stdout) - 1) :
    /\ connEnv.stdout[i] = "O"
    /\ connEnv.stdout[i + 1] = "K"
    /\ \A j \in DOMAIN connEnv.stdout \ { i, i + 1 } :
         connEnv.stdout[j] \in Whitespace

\* C30: checkConnection returns true exactly when the capture of `echo OK`
\* is "OK", which is when the command exits with 0 having printed OK and
\* whitespace around it at most; any other output, and a command that fails
\* or cannot be run (a null capture), give false; neither checkConnection nor
\* executeCommandCapture raises.
C30_ProbeTrueOnlyOnExactOK ==
  connRun.fn # "none" =>
    /\ ~connRun.raised
    /\ connRun.capture = "OK" <=> (connEnv.ends = "exit 0" /\ PrintsOK)
    /\ connEnv.ends # "exit 0" => connRun.capture = "null"
    /\ connRun.fn = "checkConnection" =>
         connRun.result <=> connRun.capture = "OK"

\* `echo OK` printed OK and a newline, and the probe returned true.
C30_Witness ==
  /\ connRun.fn = "checkConnection"
  /\ connEnv = [ stdout |-> << "O", "K", "\n" >>, ends |-> "exit 0" ]
  /\ connRun.capture = "OK"
  /\ connRun.result

\* ------------------------------------------------------------------- C31
\* The entries of the snapshot the filter loop must drop: the local node
\* (one of its addresses is listed), no configured tag, or not online.
ExcludedIds ==
  { status.Peer[k].ID : k \in { j \in DOMAIN status.Peer :
      \/ isSelf(status.Self, status.Peer[j])
      \/ ~hasSameTag(parseTags(config.tailscaleTags), status.Peer[j])
      \/ ~status.Peer[j].Online } }

\* The ids in a list of peer records.
IdsOf(list) == { list[k].id : k \in DOMAIN list }

\* C31: a peer that is the local node, carries no configured tag or is
\* reported offline is dropped by the filter loop: it is in neither list the
\* probe loop and the data-check loop walk, no probe is issued to it, and it
\* is not the peer the detection returns.
C31_ExcludedPeersNeverProbedOrSelected ==
  /\ ExcludedIds \cap IdsOf(matchingPeers) = {}
  /\ ExcludedIds \cap IdsOf(accessiblePeers) = {}
  /\ ExcludedIds \cap { e[1] : e \in probeLog } = {}
  /\ detResult.found => detResult.peer.id \notin ExcludedIds

\* A snapshot with an offline peer and an eligible one: the eligible one was
\* probed and returned, the offline one was left alone.
C31_Witness ==
  /\ dpc = "done"
  /\ detResult.found
  /\ ExcludedIds # {}
  /\ \E k \in DOMAIN status.Peer : ~status.Peer[k].Online
  /\ probeLog # {}

\* ------------------------------------------------------------------- C32
\* What pushToGit returns without git or outside a repository.
PushDegraded == [set |-> TRUE, success |-> FALSE]

\* The push stage ends in this step with that result, having called neither
\* git.commitAndPush nor git.push and having raised nothing.
EndsDegraded ==
  /\ PushToGit
  /\ results'.pushGit = PushDegraded
  /\ thrown' = NoError
  /\ UNCHANGED << gitCalls, pushRun >>

\* C32: a push stage that meets no git or no repository ends without a
\* commit, a push or an error (whenever the stage runs, that end is open to
\* it); the run then goes on to return success = true and the command line
\* exits with 0.
C32_MissingGitSkipsPush ==
  /\ Running("push_to_git") /\ ~noPreviousRunner(results) => ENABLED EndsDegraded
  /\ results.pushGit = PushDegraded =>
       /\ gitCalls = 0
       /\ ~pushRun.called
       /\ thrown = NoError /\ error = NoError
       /\ opc \in { "execute", "reported" }
       /\ opc = "reported" => report.success
       /\ cliExit.set => cliExit.code = 0

\* Publishing met no git: the stage result says so and the run succeeded.
C32_Witness ==
  /\ results.pushGit = PushDegraded
  /\ results.detection.previousRunner # NullPeer
  /\ opc = "reported"
  /\ report.success
  /\ report.results.pushGit = PushDegraded

\* ------------------------------------------------------------------- C33
\* The stop stage has begun.
StopStageBegun ==
  \E k \in DOMAIN started : started[k] = "stop_remote_services"

\* The pullData call of this run ended by raising.
PullRaisedInRun ==
  IF pullLog = << >> THEN FALSE ELSE pullLog[Len(pullLog)].state = "raised"

\* C33: the stop stage begins only after pull_data has stored its result,
\* and stopRemoteServices is called only when that result is a success of a
\* pullData call that returned, for the peer the detection stored; a run
\* whose pull raised never calls it.
C33_StopOnlyAfterSuccessfulPull ==
  /\ StopStageBegun => results.pullData.set /\ ppc = "idle"
  /\ stopTargets # << >> =>
       /\ results.pullData.set
       /\ results.pullData.success
       /\ results.pullData # Skipped
       /\ pullLog # << >>
       /\ ~PullRaisedInRun
       /\ stopTargets = << results.detection.previousRunner.id >>
  /\ PullRaisedInRun =>
       /\ stopTargets = << >>
       /\ ~results.stopServices.set
       /\ ~StopStageBegun

\* Data was pulled from the predecessor and it was then told to stop.
C33_Witness ==
  /\ stopTargets # << >>
  /\ results.stopServices.set
  /\ pullLog # << >>
  /\ pullLog[1].state = "returned"
  /\ pullLog[1].moved > 0

\* ------------------------------------------------------------------- C34
\* The stages after connect_tailscale.
OverlayStages ==
  { "detect_previous_runner", "pull_data", "stop_remote_services", "push_to_git" }

\* One of the stages after connect_tailscale has begun.
OverlayStageBegun == \E k \in DOMAIN started : started[k] \in OverlayStages

\* The connect stage raised: the error of the run is one of its failures.
ConnectRaised ==
  \/ thrown.message \in ConnectOutcomes \ { "connected" }
  \/ error.message \in ConnectOutcomes \ { "connected" }

\* C34: connectTailscale returns only when the install succeeded, `tailscale
\* up` succeeded, a status check read BackendState Running before the
\* timeout and an address or hostname was assigned; with the overlay enabled,
\* a later stage begins only after the connect stage stored a success; when
\* the connect stage fails it raises ProcessError and no later stage begins.
C34_DetectionOnlyAfterConnected ==
  /\ Running("connect_tailscale") =>
       \A env \in ConnectEnvs :
         /\ connectOutcome(env) \in ConnectOutcomes
         /\ connectOutcome(env) = "connected" =>
              /\ env.installed /\ env.up /\ env.address
              /\ \E i \in DOMAIN env.polls : env.polls[i] = "Running"
  /\ OverlayStageBegun /\ config.tailscaleEnable =>
       /\ results.tailscale.set
       /\ results.tailscale.success
       /\ joined
  /\ ConnectRaised =>
       /\ ~joined
       /\ ~results.tailscale.set
       /\ ~OverlayStageBegun
       /\ thrown.class = "ProcessError" \/ error.class = "ProcessError"
       /\ dpc = "idle" /\ probeLog = {} /\ pullLog = << >>
       /\ stopTargets = << >> /\ gitCalls = 0

\* The backend never reached Running: the run failed at the connect stage.
C34_Witness ==
  /\ opc = "failed"
  /\ error = Err("ProcessError", "never Running")
  /\ started = << "setup_directories", "connect_tailscale" >>

\* ------------------------------------------------------------------- C35
\* No peer, overlay or git command has been issued.
NoRemoteOrGitCall ==
  /\ ~joined
  /\ dpc = "idle" /\ status = NoStatus /\ probeLog = {}
  /\ ppc = "idle" /\ pullLog = << >>
  /\ spc = "idle" /\ sshCommands = << >> /\ stopTargets = << >>
  /\ gitCalls = 0 /\ ~pushRun.called

\* C35 as stated: with tailscaleEnable false only setup_directories is
\* run, no remote call and no git call is made, and what the run returns
\* has success = true.
C35_Original ==
  ~config.tailscaleEnable =>
    /\ Range(started) \subseteq { "setup_directories" }
    /\ NoRemoteOrGitCall
    /\ opc = "reported" => report.success

\* C35 (amended): with tailscaleEnable false, orchestrate starts
\* setup_directories and, when gitEnabled is true, push_to_git, which records
\* a skipped result without calling git; no remote call and no git commit or
\* push is made; the run returns success = true unless setup_directories
\* raises, in which case orchestrate rejects with that error and nothing
\* else has run.
C35_OverlayDisabledRunsNoRemoteStage ==
  ~config.tailscaleEnable =>
    /\ Range(started) \subseteq
         { "setup_directories" } \cup
         (IF config.gitEnabled THEN { "push_to_git" } ELSE {})
    /\ NoRemoteOrGitCall
    /\ results.pushGit \in { Unset, Skipped }
    /\ results.pushGit = Skipped => config.gitEnabled
    /\ opc = "reported" =>
         /\ report.success
         /\ results.setupDirs.set
         /\ results.pushGit = Skipped <=> config.gitEnabled
    /\ opc = "failed" =>
         /\ started = << "setup_directories" >>
         /\ results = NoResults
         /\ error.class = "Error"

\* Overlay off and publishing on: the run reported success, and push_to_git
\* ran and recorded a skipped result.
C35_Witness ==
  /\ ~config.tailscaleEnable
  /\ config.gitEnabled
  /\ opc = "reported"
  /\ started = << "setup_directories", "push_to_git" >>
  /\ results.pushGit = Skipped
  /\ gitCalls = 0

\* C36: executeCommandWithSudoFallback runs the command as given first; it
\* runs the command a second time, once and with the sudo prefix, only when
\* the first run failed and the command does not already start with sudo; a
\* run that succeeds makes the call return; when both runs fail the error
\* of the run under sudo is thrown; a command that already starts with sudo
\* is run once and its own error is thrown.
C36_SudoRetriedOnceAfterUnprivilegedFailure ==
  LET command == sudoEnv.command
      ran     == sudoRun.ran
      already == startsWith(trim(charsOf(command)), Spelling("sudo"))
  IN  /\ Len(ran) <= 2
      /\ Len(ran) >= 1 => ran[1] = command
      /\ Len(ran) = 2 =>
           /\ ran[2] = << "sudo", " " >> \o command
           /\ sudoEnv.plain # "resolved"
           /\ ~already
      /\ sudoRun.pc = "done" =>
           /\ sudoEnv.plain = "resolved" =>
                sudoRun.settled = "resolved" /\ Len(ran) = 1
           /\ (sudoEnv.plain # "resolved" /\ already) =>
                /\ Len(ran) = 1
                /\ sudoRun.settled = "rejected"
                /\ sudoRun.error = [attempt |-> 1, message |-> sudoEnv.plain]
           /\ (sudoEnv.plain # "resolved" /\ ~already) =>
                /\ Len(ran) = 2
                /\ IF sudoEnv.sudo = "resolved"
                     THEN sudoRun.settled = "resolved"
                     ELSE /\ sudoRun.settled = "rejected"
                          /\ sudoRun.error =
                               [attempt |-> 2, message |-> sudoEnv.sudo]

\* Both runs failed, each in its own way, and the call is over.
C36_Witness ==
  /\ sudoRun.pc = "done"
  /\ Len(sudoRun.ran) = 2
  /\ sudoEnv.plain = "Command timeout"
  /\ sudoEnv.sudo = "Command failed with code 1"
  /\ sudoRun.settled = "rejected"

\* The calls whose rsync attempt is over and failed.
PrimaryFailed ==
  { k \in DOMAIN pullLog :
      /\ pullLog[k].attempts # << >>
      /\ pullLog[k].attempts[1] = "rsync"
      /\ pullLog[k].via # "rsync" }

\* C37 as stated: every finished call whose rsync attempt failed went on to
\* scp.
C37_Original ==
  \A k \in PrimaryFailed \cap FinishedPulls :
    pullLog[k].attempts = << "rsync", "scp" >>

\* scp can run into its own timeout of 300000 ms from here.
ScpTimesOut ==
  /\ PullScp
  /\ pullLog'[Len(pullLog)].errMsg = "Command timeout after 300000ms: scp"

\* C37 (amended): rsync is attempted at most once per call and scp only
\* after a failed rsync, at most once.  A failed rsync whose text does not
\* name a missing source (non-zero exit, timeout, spawn error) is followed
\* by one scp attempt under a full timeout of its own; a failed rsync whose
\* text holds "No such file" or "does not exist" ends the call as a skipped
\* success of zero bytes and no scp is attempted.
C37_FallbackOnceUnlessSourceMissing ==
  /\ \A k \in DOMAIN pullLog :
       pullLog[k].attempts \in { << >>, << "rsync" >>, << "rsync", "scp" >> }
  /\ ppc = "scp" =>
       /\ LastPull.attempts = << "rsync" >>
       /\ LastPull.errMsg \in ErrMessages
       /\ ~includesNoSuchFile(LastPull.errMsg)
       /\ ENABLED ScpTimesOut
  /\ \A k \in PrimaryFailed \cap FinishedPulls :
       IF pullLog[k].attempts = << "rsync" >>
         THEN /\ includesNoSuchFile(pullLog[k].errMsg)
              /\ pullLog[k].state = "returned"
              /\ pullLog[k].via = "none"
              /\ pullLog[k].syncedSize = 0
         ELSE pullLog[k].attempts = << "rsync", "scp" >>

\* rsync ran into its timeout and scp is about to run, and an earlier call
\* already ended through scp.
C37_Witness ==
  /\ Len(pullLog) = 2
  /\ pullLog[1].attempts = << "rsync", "scp" >>
  /\ pullLog[1].via = "scp"
  /\ ppc = "scp"
  /\ pullLog[2].errMsg = "Command timeout after 300000ms: rsync"

\* The runWithTimeout calls: the one in progress and the finished ones.
TimedOps ==
  { o \in { op } \cup { opLog[k] : k \in DOMAIN opLog } :
      o.via = "runWithTimeout" }

\* C38: the promise of runWithTimeout settles exactly once whatever the
\* order of the timer and the close and error events.  When close or error
\* comes before the timeout the timer is cancelled and no kill is sent;
\* when the timeout comes first the kill of the process group is sent, the
\* promise rejects with the timeout error, and a close that follows leaves
\* that outcome as it is.
C38_TimedPromiseSettlesOnce ==
  /\ \A o \in TimedOps :
       /\ o.history = IF o.settled = "pending" THEN << >> ELSE << o.settled >>
       /\ o.timer \in { "armed", "cleared", "fired" }
       /\ o.timer = "armed" <=> o.settled = "pending"
       /\ o.timer = "cleared" =>
            /\ o.kill = "none"
            /\ o.reason \in { "", "Command failed with code", "spawn error" }
            /\ o.reason = "" <=> o.settled = "resolved"
       /\ o.timer = "fired" =>
            /\ o.kill \in { "group killed", "kill failed" }
            /\ o.settled = "rejected"
            /\ o.reason = "Command timeout"
  /\ \A k \in DOMAIN opLog :
       opLog[k].via = "runWithTimeout" => Len(opLog[k].history) = 1
  /\ (op.via = "runWithTimeout" /\ op.timer = "cleared") => ~ENABLED OpTimeout

\* The timeout came first and the kill did not go through, the command
\* then exited by itself and its close event was handled: the promise is
\* still rejected with the timeout error.
C38_Witness ==
  /\ op.via = "runWithTimeout"
  /\ op.timer = "fired"
  /\ op.kill = "kill failed"
  /\ op.child = "closed"
  /\ op.history = << "rejected" >>
  /\ op.reason = "Command timeout"

\* The ids of the candidates that list no address.
AddresslessIds ==
  { matchingPeers[k].id : k \in { j \in DOMAIN matchingPeers :
                                    matchingPeers[j].ips = << >> } }

\* C39: a candidate without an address is never probed, never counted as
\* accessible and never returned, so the predecessor the detection stores
\* has an address, and a pullData call made for it passes validation: its
\* plan has a remote host and "Remote host is required" is never raised.
C39_PredecessorAlwaysHasAddress ==
  /\ AddresslessIds \cap { e[1] : e \in probeLog } = {}
  /\ AddresslessIds \cap IdsOf(accessiblePeers) = {}
  /\ detResult.found => detResult.peer.ips # << >>
  /\ ~noPreviousRunner(results) => results.detection.previousRunner.ips # << >>
  /\ pullErr.class # "ValidationError"
  /\ ppc \in { "rsync", "scp" } => pullPlan.hasHost

\* The first candidate lists no address and went unprobed, a later one
\* lists one, was probed and is the peer the detection returns.
C39_Witness ==
  /\ dpc = "done"
  /\ Len(matchingPeers) = 2
  /\ matchingPeers[1].ips = << >>
  /\ { e[1] : e \in probeLog } = { matchingPeers[2].id }
  /\ detResult.found
  /\ detResult.peer.ips # << >>

\* The text getRemoteMetadata is left with: the answer of runner@host, or
\* that of root@host when the first gave nothing.
MetadataText ==
  IF checkEnv.metaRunner \in { "null", "" } THEN checkEnv.metaRoot
                                            ELSE checkEnv.metaRunner

\* C40: getRemoteMetadata asks runner@host first and root@host only when
\* the first answer was nothing, at most once each; when both gave nothing
\* or the text it is left with is not valid JSON it returns null; and it
\* raises in no case.
C40_MetadataReadNeverRaises ==
  checkRun.done =>
    /\ checkRun.commands[1] = "cat metadata as runner"
    /\ \A k \in 2..Len(checkRun.commands) :
         checkRun.commands[k] # "cat metadata as runner"
    /\ (checkEnv.metaRunner \in { "null", "" })
         <=> ( /\ Len(checkRun.commands) >= 2
               /\ checkRun.commands[2] = "cat metadata as root" )
    /\ \A k \in 3..Len(checkRun.commands) :
         checkRun.commands[k] # "cat metadata as root"
    /\ (MetadataText \in { "null", "", "not json" })
         => checkRun.metadata = NoMetadata
    /\ ~checkRun.raised

\* runner@host gave nothing, root@host gave text that is not JSON, and the
\* call returned null.
C40_Witness ==
  /\ checkRun.done
  /\ checkEnv.metaRunner = ""
  /\ checkEnv.metaRoot = "not json"
  /\ checkRun.commands[2] = "cat metadata as root"
  /\ checkRun.metadata = NoMetadata
  /\ ~checkRun.raised

====
